---- MODULE Spec2Model ----
(***************************************************************************)
(* TotalControl: "NO X UNTIL X" rule-based blocking.                       *)
(*                                                                         *)
(* A model of the enforcement engine (src/windows/blocker.py), the rule    *)
(* store and condition evaluator (src/shared/models.py), the Windows       *)
(* application's start-up and handlers (src/windows/main.py), the fitness  *)
(* sync thread (src/windows/fitness_sync.py) and the window-title          *)
(* classifier (src/desktop/window_monitor.py).                             *)
(*                                                                         *)
(* Text is modelled as a sequence of one-character strings, so that        *)
(* str.lower, str.strip, str.split, int() and strptime are computed and    *)
(* not assumed.  The hosts file is a sequence of tokens: a token is a      *)
(* line's text, a marker line or a single newline.                         *)
(***************************************************************************)
EXTENDS Integers, Sequences, FiniteSets, TLC

VARIABLES
    blocked_items,  \* WindowsBlocker.blocked_items: set of lower-cased names
    hosts,          \* content of HOSTS_FILE
    hosts0,         \* content of HOSTS_FILE when the blocker was constructed
    pc,             \* per calling thread: its position in update_blocked
    new_blocked,    \* per thread: local new_blocked of update_blocked
    content,        \* per thread: local content of _apply_hosts_block
    rec,            \* per thread: what the call in progress has done so far
    calls,          \* the last two completed calls, oldest first
    callers,        \* the threads that call into the blocker
    rules,          \* RuleStore.rules
    rule_file,      \* the file at RuleStore.filepath
    progress,       \* TotalControlApp.progress
    now,            \* datetime.now(), in seconds since midnight
    result,         \* what the last call of get_blocked_items gave its caller
    store_last,     \* the last action on the rule store and how it ended
    resolved,       \* the last call of _get_domains_for_item: item and domains
    detected,       \* a window, and what detect_screen_type gave for it
    analysis,       \* the pattern matches of a text, and what classify_text gave
    fitness,        \* FitnessSync: steps_today, workout_minutes_today, _running
    sync_pc,        \* the position of the sync thread in sync_loop
    resp,           \* the response fetch_from_firebase is working on
    fetched,        \* how the last fetch_from_firebase ended
    synced,         \* the (steps, minutes) pairs the callback was called with
    scheduled,      \* the handlers root.after has queued for the main thread
    app_pc,         \* the line TotalControlApp.__init__ has come to
    observed,       \* the progress the last foreground evaluation read
    shown,          \* the rule list as refresh_rules last drew it
    running,        \* WindowsBlocker.running
    monitors,       \* the threads start_monitoring has started, each in monitor
    sweeps,         \* per monitor thread: its sweep of _kill_blocked_processes
    heartbeat,      \* extension_heartbeat.json: missing, unreadable, or json
                    \* with the age of its timestamp
    watchdog,       \* the extension watchdog in its monitor_loop
    focus,          \* the desktop: the focused window, if any
    wmon            \* the window monitor in its monitor_loop

blocker_vars ==
    <<blocked_items, hosts, hosts0, pc, new_blocked, content, rec, calls, callers>>

store_vars == <<rules, rule_file, progress, now, result, store_last>>

\* the arguments and results of the functions looked at on their own
call_vars == <<resolved, detected, analysis>>

\* the fitness sync and its thread
sync_vars == <<fitness, sync_pc, resp, fetched, synced>>

\* the main thread: its queue, its position, what its handlers read and drew
view_vars == <<scheduled, app_pc, observed, shown>>

\* the process monitoring of the blocker
loop_vars == <<running, monitors>>

\* what the application's handlers and the sync thread leave alone
\* the sweeps of the process monitoring
kill_vars == <<sweeps>>

\* the programs of src/desktop, which run beside the application
side_vars == <<heartbeat, watchdog, focus, wmon>>

rest_vars == <<loop_vars, kill_vars, side_vars>>

\* what the enforcement engine and the rule store leave alone
ext_vars == <<call_vars, sync_vars, view_vars, rest_vars>>

vars == <<blocked_items, hosts, hosts0, pc, new_blocked, content, rec, calls, callers,
          rules, rule_file, progress, now, result, store_last,
          resolved, detected, analysis, fitness, sync_pc, resp, fetched, synced,
          scheduled, app_pc, observed, shown, running, monitors, sweeps,
          heartbeat, watchdog, focus, wmon>>

----------------------------------------------------------------------------
(* Bounds of the model.                                                    *)

\* longest item list handed to update_blocked
MaxItems == 2

\* most rules a rule file read at start-up holds
MaxFileRules == 2

\* most rules the store holds before the user stops adding
MaxRules == 2

\* longest item name resolved on its own
MaxNameLen == 3

\* most monitor threads a blocker starts before the user stops restarting it
MaxMonitors == 3

\* most patterns of one category and tier that match a text
\* the steps and the minutes a day's manual additions may come to
MaxProgress == 60

\* the lines of bypass_attempts.log that are counted
MaxLogged == 3

MaxMatches == 1

----------------------------------------------------------------------------
(* Text.                                                                   *)

UpperChars ==
    <<"A","B","C","D","E","F","G","H","I","J","K","L","M",
      "N","O","P","Q","R","S","T","U","V","W","X","Y","Z">>

LowerChars ==
    <<"a","b","c","d","e","f","g","h","i","j","k","l","m",
      "n","o","p","q","r","s","t","u","v","w","x","y","z">>

\* str.lower on one character
lower_char(c) ==
    IF \E i \in DOMAIN UpperChars : UpperChars[i] = c
    THEN LowerChars[CHOOSE i \in DOMAIN UpperChars : UpperChars[i] = c]
    ELSE c

\* str.lower
lower(s) == [i \in 1..Len(s) |-> lower_char(s[i])]

\* c in s
contains(s, c) == \E i \in 1..Len(s) : s[i] = c

\* all sequences over S of length at most n
SeqUpTo(S, n) == UNION {[1..k -> S] : k \in 0..n}

\* the elements of a sequence
Range(f) == {f[i] : i \in DOMAIN f}

\* the orders in which a set may be iterated
Orderings(S) ==
    {f \in [1..Cardinality(S) -> S] : \A i, j \in DOMAIN f : f[i] = f[j] => i = j}

\* str.strip on a text: blanks at either end are dropped
RECURSIVE str_strip(_)
str_strip(s) ==
    IF s = <<>> THEN s
    ELSE IF s[1] \in {" ", "\t", "\n"} THEN str_strip(Tail(s))
    ELSE IF s[Len(s)] \in {" ", "\t", "\n"} THEN str_strip(SubSeq(s, 1, Len(s) - 1))
    ELSE s

\* str.split(','): the pieces between the commas, empty ones included
RECURSIVE str_split(_)
str_split(s) ==
    LET commas == {i \in 1..Len(s) : s[i] = ","}
    IN  IF commas = {} THEN <<s>>
        ELSE LET i == CHOOSE x \in commas : \A y \in commas : x <= y
             IN  <<SubSeq(s, 1, i - 1)>> \o str_split(SubSeq(s, i + 1, Len(s)))

Digits == <<"0","1","2","3","4","5","6","7","8","9">>

IsDigit(c) == \E i \in DOMAIN Digits : Digits[i] = c

DigitValue(c) == (CHOOSE i \in DOMAIN Digits : Digits[i] = c) - 1

AllDigits(s) == s # <<>> /\ \A i \in 1..Len(s) : IsDigit(s[i])

\* the number a non-empty run of digits writes
RECURSIVE DigitsValue(_)
DigitsValue(s) ==
    IF s = <<>> THEN 0
    ELSE 10 * DigitsValue(SubSeq(s, 1, Len(s) - 1)) + DigitValue(s[Len(s)])

\* Python optional values: None is <<>>, a value v is <<v>>
None == <<>>

Some(v) == <<v>>

\* int(s) for a stripped text: an optional sign and digits; None stands for
\* ValueError
int(s) ==
    IF AllDigits(s) THEN Some(DigitsValue(s))
    ELSE IF s # <<>> /\ s[1] \in {"+", "-"} /\ AllDigits(Tail(s))
    THEN Some(IF s[1] = "-" THEN 0 - DigitsValue(Tail(s)) ELSE DigitsValue(Tail(s)))
    ELSE None

\* datetime.strptime(s, "%H:%M").time() as <<hour, minute>>: one or two digits
\* up to 23, a colon, one or two digits up to 59; None stands for ValueError
strptime_HM(s) ==
    LET colons == {i \in 1..Len(s) : s[i] = ":"}
    IN  IF Cardinality(colons) # 1 THEN None
        ELSE LET i == CHOOSE x \in colons : TRUE
                 h == SubSeq(s, 1, i - 1)
                 m == SubSeq(s, i + 1, Len(s))
             IN  IF /\ AllDigits(h) /\ Len(h) <= 2 /\ DigitsValue(h) <= 23
                    /\ AllDigits(m) /\ Len(m) <= 2 /\ DigitsValue(m) <= 59
                 THEN Some(<<DigitsValue(h), DigitsValue(m)>>)
                 ELSE None

\* int(x / y) for integers: the quotient rounded toward zero
TruncDiv(x, y) ==
    IF (x >= 0) = (y > 0) THEN (IF x >= 0 THEN x \div y ELSE (0 - x) \div (0 - y))
    ELSE 0 - ((IF x >= 0 THEN x ELSE 0 - x) \div (IF y >= 0 THEN y ELSE 0 - y))

Min(a, b) == IF a <= b THEN a ELSE b

----------------------------------------------------------------------------
(* src/shared/models.py                                                    *)

ConditionTypes == {"steps", "time", "workout", "location", "tomorrow", "password"}

\* Location(name, latitude, longitude): coordinates in millionths of a degree
Location(name, latitude, longitude) ==
    [name |-> name, latitude |-> latitude, longitude |-> longitude,
     radius_meters |-> 100]

\* Condition(type=type): every type-specific value is None
Condition(type) ==
    [type |-> type, steps_target |-> None, time_target |-> None,
     workout_minutes |-> None, location |-> None]

\* Rule(id, blocked_items, condition): enabled unless told otherwise.
\* created_at, a time stamp no code reads, is left out.
Rule(id, items, condition) ==
    [id |-> id, blocked_items |-> items, condition |-> condition, enabled |-> TRUE]

\* Progress()
Progress == [steps_today |-> 0, workout_minutes_today |-> 0, current_location |-> None]

\* Condition.to_dict: a key is written only when its value is truthy, so a
\* target of 0 and an empty time text are not written; an absent key is None
Condition_to_dict(c) ==
    [type |-> c.type,
     steps_target |->
        IF c.steps_target # None /\ c.steps_target[1] # 0 THEN c.steps_target ELSE None,
     time_target |->
        IF c.time_target # None /\ c.time_target[1] # <<>> THEN c.time_target ELSE None,
     workout_minutes |->
        IF c.workout_minutes # None /\ c.workout_minutes[1] # 0
        THEN c.workout_minutes ELSE None,
     location |->
        IF c.location # None
        THEN Some([name |-> c.location[1].name, lat |-> c.location[1].latitude,
                   lng |-> c.location[1].longitude,
                   radius |-> c.location[1].radius_meters])
        ELSE None]

\* Condition.from_dict, of a dict that has its type
Condition_from_dict(d) ==
    [type |-> d.type,
     steps_target |-> d.steps_target,
     time_target |-> d.time_target,
     workout_minutes |-> d.workout_minutes,
     location |->
        IF d.location # None
        THEN Some([name |-> d.location[1].name, latitude |-> d.location[1].lat,
                   longitude |-> d.location[1].lng,
                   radius_meters |-> d.location[1].radius])
        ELSE None]

\* Rule.to_dict
Rule_to_dict(r) ==
    [id |-> r.id, blocked_items |-> r.blocked_items,
     condition |-> Condition_to_dict(r.condition), enabled |-> r.enabled]

\* Rule.from_dict, of a dict that has its keys
Rule_from_dict(d) ==
    [id |-> d.id, blocked_items |-> d.blocked_items,
     condition |-> Condition_from_dict(d.condition), enabled |-> d.enabled]

\* what check_condition hands back: it raised, or (met, text); the text is
\* kept as its format and the numbers or the name put into it
Raised == [raised |-> TRUE, met |-> FALSE, fmt |-> "", args |-> <<>>, name |-> <<>>]

Checked(met, fmt, args) ==
    [raised |-> FALSE, met |-> met, fmt |-> fmt, args |-> args, name |-> <<>>]

\* Progress.check_condition, lines 117-120
check_steps(p, c) ==
    IF c.steps_target = None THEN Raised                 \* int >= None: TypeError
    ELSE IF c.steps_target[1] = 0 THEN Raised            \* ZeroDivisionError
    ELSE LET target == c.steps_target[1]
             pct == Min(100, TruncDiv(p.steps_today * 100, target))
         IN  Checked(p.steps_today >= target, "{:,}/{:,} ({}%)",
                     <<p.steps_today, target, pct>>)

\* Progress.check_condition, lines 122-136; clock is what datetime.now() gives
check_time(c, clock) ==
    IF c.time_target = None THEN Raised                  \* strptime(None): TypeError
    ELSE IF strptime_HM(c.time_target[1]) = None THEN Raised       \* ValueError
    ELSE LET hm == strptime_HM(c.time_target[1])[1]
             target == hm[1] * 3600 + hm[2] * 60
             mins == TruncDiv(target - clock, 60)
         IN  IF clock >= target THEN Checked(TRUE, "Time reached", <<>>)
             ELSE IF mins > 60
             THEN Checked(FALSE, "{}h {}m left", <<mins \div 60, mins % 60>>)
             ELSE Checked(FALSE, "{}m left", <<mins>>)

\* Progress.check_condition, lines 138-140
check_workout(p, c) ==
    IF c.workout_minutes = None THEN Raised              \* int >= None: TypeError
    ELSE Checked(p.workout_minutes_today >= c.workout_minutes[1], "{}/{}min",
                 <<p.workout_minutes_today, c.workout_minutes[1]>>)

\* Progress.check_condition, lines 142-152: sqrt(dlat^2 + dlng^2) * 111000 <=
\* radius, with both sides squared and the coordinates in millionths
check_location(p, c) ==
    IF p.current_location = None THEN Checked(FALSE, "Location unknown", <<>>)
    ELSE IF c.location = None THEN Raised                \* AttributeError
    ELSE LET here == p.current_location[1]
             there == c.location[1]
             dlat == here.latitude - there.latitude
             dlng == here.longitude - there.longitude
             met == (dlat * dlat + dlng * dlng) * 111 * 111
                        <= (there.radius_meters * 1000) * (there.radius_meters * 1000)
         IN  [Checked(met, IF met THEN "At {}" ELSE "Not at {}", <<>>)
                 EXCEPT !.name = there.name]

\* Progress.check_condition
check_condition(p, c, clock) ==
    IF c.type = "steps" THEN check_steps(p, c)
    ELSE IF c.type = "time" THEN check_time(c, clock)
    ELSE IF c.type = "workout" THEN check_workout(p, c)
    ELSE IF c.type = "location" THEN check_location(p, c)
    ELSE IF c.type = "tomorrow" THEN Checked(FALSE, "Blocked until tomorrow", <<>>)
    ELSE IF c.type = "password" THEN Checked(FALSE, "Enter password to unlock", <<>>)
    ELSE Checked(FALSE, "Unknown", <<>>)

\* what get_blocked_items hands back: it raised, or the items of its list
\* (list(set(blocked)) comes in no particular order)
NoResult == [raised |-> FALSE, returned |-> FALSE, items |-> {}]

\* get_blocked_items without its test of enabled
skips_rule_never(rule) == FALSE

\* models.py:194-195, a rule that is not enabled is passed over
skips_rule(rule) == ~rule.enabled

\* blocked = rule.blocked_items, for blocked.extend(rule.blocked_items)
extend_assign(blocked, items) == items

\* models.py:198, blocked.extend(rule.blocked_items)
extend(blocked, items) == blocked \o items

\* models.py:193-198, the loop: <<raised, blocked>>
RECURSIVE blocked_loop(_, _, _, _)
blocked_loop(rs, p, clock, blocked) ==
    IF rs = <<>> THEN <<FALSE, blocked>>
    ELSE IF skips_rule(rs[1]) THEN blocked_loop(Tail(rs), p, clock, blocked)
    ELSE LET checked == check_condition(p, rs[1].condition, clock)
         IN  IF checked.raised THEN <<TRUE, blocked>>
             ELSE IF ~checked.met
             THEN blocked_loop(Tail(rs), p, clock, extend(blocked, rs[1].blocked_items))
             ELSE blocked_loop(Tail(rs), p, clock, blocked)

\* RuleStore.get_blocked_items
get_blocked_items(rs, p, clock) ==
    LET done == blocked_loop(rs, p, clock, <<>>)
    IN  IF done[1] THEN [raised |-> TRUE, returned |-> FALSE, items |-> {}]
        ELSE [raised |-> FALSE, returned |-> TRUE,
              items |-> {done[2][i] : i \in DOMAIN done[2]}]

\* the rule file: missing, holding a JSON document, or cut short by a write
\* that failed
NoFile == [state |-> "missing", rules |-> <<>>]

\* RuleStore.save, line 180: the document json.dump writes
saved(rs) == [state |-> "ok", rules |-> [i \in DOMAIN rs |-> Rule_to_dict(rs[i])]]

\* RuleStore.load, of a file that is missing or holds well-formed rules
load(file) ==
    IF file.state = "missing" THEN <<>>
    ELSE [i \in DOMAIN file.rules |-> Rule_from_dict(file.rules[i])]

\* the keys Rule.from_dict reads with d[...]
RuleKeys == {"id", "blocked_items", "condition"}

\* Rule.from_dict raises: KeyError for a key read with d[...] that is not
\* there, ValueError for a type that ConditionType does not have
from_dict_raises(d) ==
    \/ ~(RuleKeys \subseteq DOMAIN d)
    \/ "type" \notin DOMAIN d.condition
    \/ d.condition.type \notin ConditionTypes

\* RuleStore.load raises: only FileNotFoundError is caught, so an error of
\* json.load or of Rule.from_dict on any record leaves load
load_raises(file) ==
    /\ file.state # "missing"
    /\ \/ file.state # "ok"
       \/ \E i \in DOMAIN file.rules : from_dict_raises(file.rules[i])

\* RuleStore.__init__, lines 165-168: self.rules = [] and then load()
RuleStore_init ==
    /\ store_last.op = "none"
    /\ rules' = IF load_raises(rule_file) THEN <<>> ELSE load(rule_file)
    /\ store_last' = [op |-> "load",
                      how |-> IF load_raises(rule_file) THEN "raised" ELSE "returned"]
    /\ UNCHANGED <<rule_file, progress, now, result>>
    /\ UNCHANGED <<blocker_vars, ext_vars>>

----------------------------------------------------------------------------
(* src/windows/blocker.py                                                  *)

\* Known site -> domain mappings
SITE_DOMAINS ==
    (<<"n","e","t","f","l","i","x">> :>
        <<<<"n","e","t","f","l","i","x",".","c","o","m">>,
          <<"n","f","l","x","v","i","d","e","o",".","n","e","t">>,
          <<"n","f","l","x","i","m","g",".","n","e","t">>,
          <<"n","f","l","x","s","o",".","n","e","t">>>>) @@
    (<<"y","o","u","t","u","b","e">> :>
        <<<<"y","o","u","t","u","b","e",".","c","o","m">>,
          <<"y","o","u","t","u",".","b","e">>,
          <<"g","o","o","g","l","e","v","i","d","e","o",".","c","o","m">>,
          <<"y","t","i","m","g",".","c","o","m">>>>) @@
    (<<"t","i","k","t","o","k">> :>
        <<<<"t","i","k","t","o","k",".","c","o","m">>,
          <<"t","i","k","t","o","k","c","d","n",".","c","o","m">>,
          <<"t","i","k","t","o","k","v",".","c","o","m">>>>) @@
    (<<"r","e","d","d","i","t">> :>
        <<<<"r","e","d","d","i","t",".","c","o","m">>,
          <<"r","e","d","d",".","i","t">>,
          <<"r","e","d","d","i","t","m","e","d","i","a",".","c","o","m">>>>) @@
    (<<"t","w","i","t","t","e","r">> :>
        <<<<"t","w","i","t","t","e","r",".","c","o","m">>,
          <<"x",".","c","o","m">>,
          <<"t","w","i","m","g",".","c","o","m">>>>) @@
    (<<"i","n","s","t","a","g","r","a","m">> :>
        <<<<"i","n","s","t","a","g","r","a","m",".","c","o","m">>,
          <<"c","d","n","i","n","s","t","a","g","r","a","m",".","c","o","m">>>>) @@
    (<<"f","a","c","e","b","o","o","k">> :>
        <<<<"f","a","c","e","b","o","o","k",".","c","o","m">>,
          <<"f","b",".","c","o","m">>,
          <<"f","b","c","d","n",".","n","e","t">>>>) @@
    (<<"t","w","i","t","c","h">> :>
        <<<<"t","w","i","t","c","h",".","t","v">>,
          <<"t","w","i","t","c","h","c","d","n",".","n","e","t">>>>) @@
    (<<"d","i","s","n","e","y","+">> :>
        <<<<"d","i","s","n","e","y","p","l","u","s",".","c","o","m">>,
          <<"d","i","s","n","e","y","-","p","l","u","s",".","n","e","t">>>>) @@
    (<<"h","u","l","u">> :>
        <<<<"h","u","l","u",".","c","o","m">>,
          <<"h","u","l","u","i","m",".","c","o","m">>>>) @@
    (<<"h","b","o">> :>
        <<<<"h","b","o","m","a","x",".","c","o","m">>,
          <<"m","a","x",".","c","o","m">>>>) @@
    (<<"a","m","a","z","o","n">> :>
        <<<<"p","r","i","m","e","v","i","d","e","o",".","c","o","m">>,
          <<"a","i","v","-","c","d","n",".","n","e","t">>>>)

MARKER_START == <<"# === TOTALCONTROL START ===">>

MARKER_END == <<"# === TOTALCONTROL END ===">>

\* the "\n" between two lines of the hosts file
NL == <<"\n">>

\* the tokens str.strip removes at either end
Whitespace == {NL, <<" ">>, <<"\t">>}

\* f"127.0.0.1 {domain}"
HostLine(domain) == <<"127.0.0.1 ">> \o domain

\* f"127.0.0.1 www.{domain}"
WwwLine(domain) == <<"127.0.0.1 ", "w", "w", "w", ".">> \o domain

\* _get_domains_for_item without its table and its test for a dot
get_domains_com_only(item) == <<lower(item) \o <<".", "c", "o", "m">> >>

\* _get_domains_for_item: the list of domains to block for an item
get_domains_for_item(item) ==
    LET item_lower == lower(item)
    IN  IF item_lower \in DOMAIN SITE_DOMAINS
        THEN SITE_DOMAINS[item_lower]
        ELSE IF contains(item, ".")
        THEN <<item_lower>>
        ELSE <<item_lower \o <<".", "c", "o", "m">> >>

\* re.sub(MARKER_START .*? MARKER_END, '', content, flags=re.DOTALL): every
\* stretch from a start marker to the nearest end marker after it is removed
RECURSIVE re_sub_markers(_)
re_sub_markers(c) ==
    LET starts == {i \in 1..Len(c) : c[i] = MARKER_START}
    IN  IF starts = {}
        THEN c
        ELSE LET i    == CHOOSE x \in starts : \A y \in starts : x <= y
                 ends == {j \in (i + 1)..Len(c) : c[j] = MARKER_END}
             IN  IF ends = {}
                 THEN c
                 ELSE LET j == CHOOSE x \in ends : \A y \in ends : x <= y
                      IN  SubSeq(c, 1, i - 1) \o re_sub_markers(SubSeq(c, j + 1, Len(c)))

\* str.strip
RECURSIVE strip(_)
strip(c) ==
    IF c = <<>> THEN c
    ELSE IF c[1] \in Whitespace THEN strip(Tail(c))
    ELSE IF c[Len(c)] \in Whitespace THEN strip(SubSeq(c, 1, Len(c) - 1))
    ELSE c

\* "\n".join(lines)
RECURSIVE join_lines(_)
join_lines(lines) ==
    IF lines = <<>> THEN <<>>
    ELSE IF Len(lines) = 1 THEN <<lines[1]>>
    ELSE <<lines[1], NL>> \o join_lines(Tail(lines))

\* blocker.py:90-92, the two lines appended for every domain of one item
RECURSIVE domain_lines(_)
domain_lines(domains) ==
    IF domains = <<>> THEN <<>>
    ELSE <<HostLine(domains[1]), WwwLine(domains[1])>> \o domain_lines(Tail(domains))

\* blocker.py:88-93, block_lines for the items in the order they are iterated
RECURSIVE item_lines(_)
item_lines(order) ==
    IF order = <<>> THEN <<>>
    ELSE domain_lines(get_domains_for_item(order[1])) \o item_lines(Tail(order))

block_lines(order) == <<MARKER_START>> \o item_lines(order) \o <<MARKER_END>>

\* blocker.py:95
with_block(c, order) == c \o <<NL, NL>> \o join_lines(block_lines(order))

\* update_blocked without its comparison: every call rewrites the file
needs_update_always(new, current) == TRUE

\* blocker.py:55, whether update_blocked goes on to rewrite the hosts file
needs_update(new, current) == new # current

----------------------------------------------------------------------------
(* The inputs of the enforcement engine.                                   *)

Netflix == <<"N","e","t","f","l","i","x">>
netflix == <<"n","e","t","f","l","i","x">>
netflix_com == <<"n","e","t","f","l","i","x",".","c","o","m">>
foo == <<"f","o","o">>

\* the item names callers hand to update_blocked
ItemNames == {Netflix, netflix_com, foo}

\* lines of the hosts file that are not the blocker's
Localhost == <<"127.0.0.1 localhost">>
Router == <<"192.168.1.1 router">>

\* the hosts file a blocker may find when it is constructed: empty, a plain
\* file, one with blank lines at both ends, one that still holds the region
\* an earlier run appended and a line added after that region
HostsFiles ==
    { <<>>,
      <<Localhost, NL>>,
      <<NL, Localhost, NL, Router, NL, NL>>,
      <<Localhost, NL, NL>> \o join_lines(block_lines(<<foo>>)) \o <<NL, Router, NL>> }

Threads == {"main", "worker"}

\* whether a list of items names, case and order aside, exactly the set S
SameItems(items, S) ==
    /\ \A i \in 1..Len(items) : \E b \in S : lower(items[i]) = lower(b)
    /\ \A b \in S : \E i \in 1..Len(items) : lower(items[i]) = lower(b)

\* what is recorded of a call: the set it was handed, the set it found
\* applied and whether the items handed named that set, whether it was an
\* update handed the set of the update just before it, what it did to the
\* hosts file, and whether it left the applied set as it found it
NoCall ==
    [op |-> "none", new |-> {}, before |-> {}, same |-> FALSE, again |-> FALSE,
     wrote |-> FALSE, flushed |-> FALSE, failed |-> FALSE, kept |-> FALSE]

\* the log keeps the last two completed calls; once a call is over the set it
\* found applied is forgotten, and of the older call the set it was handed
Logged(r) ==
    LET done == [r EXCEPT !.before = {}, !.kept = (blocked_items = r.before)]
    IN  IF calls = <<>> THEN <<done>>
        ELSE <<[calls[Len(calls)] EXCEPT !.new = {}], done>>

\* the set the last completed call was handed, when it was an update
LastUpdateSet == IF calls # <<>> /\ calls[Len(calls)].op = "update"
                 THEN {calls[Len(calls)].new} ELSE {}

----------------------------------------------------------------------------
(* WindowsBlocker, one step of one thread at a time.                       *)

\* a call returns: its record, with the set it leaves behind, is logged
Return(t, r) ==
    /\ pc' = [pc EXCEPT ![t] = "idle"]
    /\ rec' = [rec EXCEPT ![t] = NoCall]
    /\ new_blocked' = [new_blocked EXCEPT ![t] = {}]
    /\ content' = [content EXCEPT ![t] = <<>>]
    /\ calls' = Logged(r)

\* update_blocked(items), lines 54-55
update_blocked(t, items) ==
    /\ pc[t] = "idle"
    /\ LET new == {lower(items[i]) : i \in 1..Len(items)}
           r   == [NoCall EXCEPT !.op = "update", !.new = new,
                                 !.before = blocked_items,
                                 !.same = SameItems(items, blocked_items),
                                 !.again = (new \in LastUpdateSet)]
       IN  IF needs_update(new, blocked_items)
           THEN /\ pc' = [pc EXCEPT ![t] = "assign"]
                /\ new_blocked' = [new_blocked EXCEPT ![t] = new]
                /\ rec' = [rec EXCEPT ![t] = r]
                /\ UNCHANGED <<content, calls>>
           ELSE Return(t, r)
    /\ UNCHANGED <<blocked_items, hosts, hosts0, callers>>

\* update_blocked, line 56
update_assign(t) ==
    /\ pc[t] = "assign"
    /\ blocked_items' = new_blocked[t]
    /\ pc' = [pc EXCEPT ![t] = "read"]
    /\ UNCHANGED <<hosts, hosts0, new_blocked, content, rec, calls, callers>>

\* clear_blocks, line 144
clear_blocks(t) ==
    /\ pc[t] = "idle"
    /\ blocked_items' = {}
    /\ pc' = [pc EXCEPT ![t] = "read"]
    /\ rec' = [rec EXCEPT ![t] =
                 [NoCall EXCEPT !.op = "clear", !.before = blocked_items]]
    /\ UNCHANGED <<hosts, hosts0, new_blocked, content, calls, callers>>

\* _apply_hosts_block, lines 78-84: read the file, cut the old region, strip
apply_read(t) ==
    /\ pc[t] = "read"
    /\ content' = [content EXCEPT ![t] = strip(re_sub_markers(hosts))]
    /\ pc' = [pc EXCEPT ![t] = "test"]
    /\ UNCHANGED <<blocked_items, hosts, hosts0, new_blocked, rec, calls, callers>>

\* _apply_hosts_block, line 87
apply_test(t) ==
    /\ pc[t] = "test"
    /\ pc' = [pc EXCEPT ![t] = IF blocked_items # {} THEN "build" ELSE "write"]
    /\ UNCHANGED <<blocked_items, hosts, hosts0, new_blocked, content, rec, calls, callers>>

\* _apply_hosts_block, lines 88-95: the set is iterated in an order of its own
apply_build(t) ==
    /\ pc[t] = "build"
    /\ \E order \in Orderings(blocked_items) :
          content' = [content EXCEPT ![t] = with_block(content[t], order)]
    /\ pc' = [pc EXCEPT ![t] = "write"]
    /\ UNCHANGED <<blocked_items, hosts, hosts0, new_blocked, rec, calls, callers>>

\* _apply_hosts_block, lines 98-99
apply_write(t) ==
    /\ pc[t] = "write"
    /\ hosts' = content[t]
    /\ rec' = [rec EXCEPT ![t].wrote = TRUE]
    /\ pc' = [pc EXCEPT ![t] = "flush"]
    /\ UNCHANGED <<blocked_items, hosts0, new_blocked, content, calls, callers>>

\* _apply_hosts_block, lines 102-103, and the return to the caller
apply_flush(t) ==
    /\ pc[t] = "flush"
    /\ Return(t, [rec[t] EXCEPT !.flushed = TRUE])
    /\ UNCHANGED <<blocked_items, hosts, hosts0, callers>>

\* _apply_hosts_block, lines 105-108: open() for reading or for writing raises
\* (PermissionError, FileNotFoundError); the error is printed and swallowed
apply_error(t) ==
    /\ pc[t] \in {"read", "write"}
    /\ Return(t, [rec[t] EXCEPT !.failed = TRUE])
    /\ UNCHANGED <<blocked_items, hosts, hosts0, callers>>

BlockerInit(who) ==
    /\ blocked_items = {}
    /\ hosts \in HostsFiles
    /\ hosts0 = hosts
    /\ pc = [t \in Threads |-> "idle"]
    /\ new_blocked = [t \in Threads |-> {}]
    /\ content = [t \in Threads |-> <<>>]
    /\ rec = [t \in Threads |-> NoCall]
    /\ calls = <<>>
    /\ callers = who

\* a call of _get_domains_for_item(item) and what it returns
call_get_domains_for_item(name) ==
    /\ resolved' = Some([item |-> name, domains |-> get_domains_for_item(name)])
    /\ UNCHANGED <<detected, analysis>>
    /\ UNCHANGED <<blocker_vars, store_vars, sync_vars, view_vars, rest_vars>>

\* the item names resolved: "example.org", and every name of the letters of
\* the alias "hbo", in either case, and the dot
example_org == <<"e","x","a","m","p","l","e",".","o","r","g">>

NameChars == {"h", "b", "o", "B", "."}

ResolvedNames == {Netflix, netflix, foo, example_org} \cup SeqUpTo(NameChars, MaxNameLen)

----------------------------------------------------------------------------
(* WindowsBlocker: the process monitoring.                                 *)

MonitorThreads == 1..MaxMonitors

\* a thread of monitor: where it is, and, noted beside it, whether
\* stop_monitoring was called since it was started and how many sweeps it has
\* begun since then (counted up to 2)
NoMonitor == [pc |-> "none", stopped |-> FALSE, more |-> 0]

\* the monitor threads that have been started and have not returned
Live == {t \in MonitorThreads : monitors[t].pc \in {"test", "sweep", "kill"}}

\* what the monitoring leaves alone
loop_frame ==
    <<blocker_vars, store_vars, call_vars, sync_vars, view_vars, kill_vars, side_vars>>

\* start_monitoring, lines 126-136: nothing when running, else the flag is
\* raised and a new thread started
start_monitoring ==
    /\ IF running
       THEN UNCHANGED <<running, monitors>>
       ELSE /\ \E t \in MonitorThreads :
                 /\ monitors[t].pc = "none"
                 /\ \A u \in 1..(t - 1) : monitors[u].pc # "none"
                 /\ monitors' = [monitors EXCEPT ![t].pc = "test"]
            /\ running' = TRUE
    /\ UNCHANGED loop_frame

\* stop_monitoring, line 140
stop_monitoring ==
    /\ running' = FALSE
    /\ monitors' = [t \in MonitorThreads |->
                      IF t \in Live THEN [monitors[t] EXCEPT !.stopped = TRUE]
                      ELSE monitors[t]]
    /\ UNCHANGED loop_frame

\* monitor, line 131: while self.running
monitor_test(t) ==
    /\ monitors[t].pc = "test"
    /\ LET m == monitors[t]
       IN  monitors' = [monitors EXCEPT ![t] =
                          IF running
                          THEN [m EXCEPT !.pc = "sweep",
                                         !.more = IF m.stopped THEN Min(m.more + 1, 2)
                                                  ELSE 0]
                          ELSE [m EXCEPT !.pc = "done"]]
    /\ UNCHANGED running
    /\ UNCHANGED loop_frame

\* monitor, lines 132-133: one sweep of _kill_blocked_processes, whose
\* errors are swallowed on line 121, and the sleep after it
monitor_sweep(t) ==
    /\ monitors[t].pc = "sweep"
    /\ monitors' = [monitors EXCEPT ![t].pc = "test"]
    /\ UNCHANGED running
    /\ UNCHANGED loop_frame

----------------------------------------------------------------------------
(* src/windows/main.py: the rule dialog and the rule list.                 *)

\* main.py:237, the items typed: split at commas, stripped, empty ones dropped
typed_items(text) ==
    LET pieces == str_split(text)
        stripped == [i \in DOMAIN pieces |-> str_strip(pieces[i])]
    IN  SelectSeq(stripped, LAMBDA x : x # <<>>)

\* main.py:243-258, the condition for a type and a stripped value; None stands
\* for the ValueError that int() raises
typed_condition(ctype, value) ==
    IF ctype = "steps"
    THEN IF int(value) = None THEN None
         ELSE Some([Condition(ctype) EXCEPT !.steps_target = int(value)])
    ELSE IF ctype = "time"
    THEN Some([Condition(ctype) EXCEPT !.time_target = Some(value)])
    ELSE IF ctype = "workout"
    THEN IF int(value) = None THEN None
         ELSE Some([Condition(ctype) EXCEPT !.workout_minutes = int(value)])
    ELSE IF ctype = "location"
    THEN Some([Condition(ctype) EXCEPT !.location = Some(Location(value, 0, 0))])
    ELSE Some(Condition(ctype))

\* main.py:261, str(uuid.uuid4())[:8]: an id no rule of the store has
new_id == CHOOSE n \in 1..(Len(rules) + 1) :
              /\ \A i \in DOMAIN rules : rules[i].id # n
              /\ \A m \in 1..(n - 1) : \E i \in DOMAIN rules : rules[i].id = m

\* how open() and json.dump may end in RuleStore.save
SaveOutcomes == {"saved", "open fails", "write fails"}

\* RuleStore.save with self.rules = rs: the file it leaves
save(rs, outcome) ==
    rule_file' = IF outcome = "saved" THEN saved(rs)
                 ELSE IF outcome = "write fails"
                 THEN [state |-> "cut short", rules |-> <<>>]
                 ELSE rule_file

\* how a call ends whose save ended with outcome: an error of save is not caught
Ended(outcome) == IF outcome = "saved" THEN "returned" ELSE "raised"

\* RuleStore.add
add(rule, outcome) ==
    /\ rules' = Append(rules, rule)
    /\ save(rules', outcome)
    /\ store_last' = [op |-> "add", how |-> Ended(outcome)]

\* RuleStore.remove
remove(rule_id, outcome) ==
    /\ rules' = SelectSeq(rules, LAMBDA r : r.id # rule_id)
    /\ save(rules', outcome)
    /\ store_last' = [op |-> "remove", how |-> Ended(outcome)]

\* add_rule_dialog.create, lines 236-267, with what was typed and selected
create(items_text, ctype, value_text, outcome) ==
    /\ Len(rules) < MaxRules
    /\ LET items == typed_items(items_text)
           condition == typed_condition(ctype, str_strip(value_text))
       IN  IF items = <<>> \/ condition = None
           THEN /\ store_last' = [op |-> "create", how |-> "rejected"]
                /\ UNCHANGED <<rules, rule_file>>
           ELSE add(Rule(new_id, items, condition[1]), outcome)
    /\ UNCHANGED <<progress, now, result>>
    /\ UNCHANGED <<blocker_vars, ext_vars>>

\* delete_rule, lines 274-277, when the user answers yes
delete_rule(rule_id, outcome) ==
    /\ remove(rule_id, outcome)
    /\ UNCHANGED <<progress, now, result>>
    /\ UNCHANGED <<blocker_vars, ext_vars>>

\* main.py:283-284, root.after(0, ...): what on_fitness_update queues
Handlers == {"refresh_rules", "update_blocking"}

\* on_fitness_update, lines 281-284, run in one piece
on_fitness_update(steps, workout_mins) ==
    /\ progress' = [progress EXCEPT !.steps_today = steps,
                                    !.workout_minutes_today = workout_mins]
    /\ scheduled' = scheduled \cup Handlers
    /\ result' = NoResult
    /\ UNCHANGED <<rules, rule_file, now, store_last, app_pc, observed, shown>>
    /\ UNCHANGED <<blocker_vars, call_vars, sync_vars, rest_vars>>

\* TotalControlApp.get_blocked_items, lines 297-299
app_get_blocked_items ==
    /\ result' = get_blocked_items(rules, progress, now)
    /\ UNCHANGED <<rules, rule_file, progress, now, store_last>>
    /\ UNCHANGED <<blocker_vars, ext_vars>>

\* Condition.describe raises: f"{None:,}" for a steps rule without a target,
\* None.name for a location rule without a location
describe_raises(c) ==
    \/ c.type = "steps" /\ c.steps_target = None
    \/ c.type = "location" /\ c.location = None

\* the rule list before it is drawn; at is what datetime.now() gave while
\* it was drawn
NotShown == [drawn |-> FALSE, raised |-> FALSE, widgets |-> <<>>, at |-> 0]

\* refresh_rules, lines 114-115: create_rule_widget for one rule after the
\* other, each with what check_condition gives for it; the first error leaves
\* the loop and refresh_rules: <<raised, widgets>>
RECURSIVE draw_rules(_, _, _, _)
draw_rules(rs, p, clock, widgets) ==
    IF rs = <<>> THEN <<FALSE, widgets>>
    ELSE LET checked == check_condition(p, rs[1].condition, clock)
         IN  IF checked.raised \/ describe_raises(rs[1].condition)
             THEN <<TRUE, widgets>>
             ELSE draw_rules(Tail(rs), p, clock, Append(widgets, checked))

\* the progress record a foreground evaluation is handed
snapshot == Some(<<progress.steps_today, progress.workout_minutes_today>>)

\* refresh_rules, lines 100-115; what becomes of the queue, and where the
\* main thread goes on, is the caller's
refresh_rules ==
    /\ LET drawn == draw_rules(rules, progress, now, <<>>)
       IN  shown' = [drawn |-> TRUE, raised |-> drawn[1], widgets |-> drawn[2],
                     at |-> now]
    /\ observed' = snapshot
    /\ UNCHANGED <<blocker_vars, store_vars, call_vars, sync_vars, rest_vars>>

\* _apply_hosts_block in one piece, for the set the blocker now records and
\* the order it is iterated in: the file it writes
hosts_written(order) ==
    LET c == strip(re_sub_markers(hosts))
    IN  IF order = <<>> THEN c ELSE with_block(c, order)

\* update_blocking, lines 286-295, with blocker.update_blocked run in one
\* piece on the main thread; an error of get_blocked_items leaves the handler
\* before the blocker is called
update_blocking(fails) ==
    /\ result' = get_blocked_items(rules, progress, now)
    /\ observed' = snapshot
    /\ LET new == {lower(x) : x \in result'.items}
       IN  IF result'.returned /\ needs_update(new, blocked_items)
           THEN /\ blocked_items' = new
                /\ \E order \in Orderings(new) :
                      hosts' = IF fails THEN hosts ELSE hosts_written(order)
           ELSE UNCHANGED <<blocked_items, hosts>>
    /\ UNCHANGED <<hosts0, pc, new_blocked, content, rec, calls, callers>>
    /\ UNCHANGED <<rules, rule_file, progress, now, store_last, shown>>
    /\ UNCHANGED <<call_vars, sync_vars, rest_vars>>

\* time passes: datetime.now() gives a later time of day
tick(later) ==
    /\ later > now
    /\ now' = later
    /\ UNCHANGED <<rules, rule_file, progress, result, store_last>>
    /\ UNCHANGED <<blocker_vars, ext_vars>>

\* TotalControlApp.__init__, line 60: refresh_rules is called on the main
\* thread with no handler around it; an error of it leaves __init__ and main()
init_refresh_rules ==
    /\ app_pc = "refresh_rules"
    /\ refresh_rules
    /\ app_pc' = IF shown'.raised THEN "crashed" ELSE "update_blocking"
    /\ UNCHANGED scheduled

\* TotalControlApp.__init__, line 64: update_blocking, likewise
init_update_blocking(fails) ==
    /\ app_pc = "update_blocking"
    /\ update_blocking(fails)
    /\ app_pc' = IF result'.raised THEN "crashed" ELSE "mainloop"
    /\ UNCHANGED scheduled

\* root.mainloop() runs a queued handler; Tk reports an error of the handler
\* and goes on with the loop
mainloop_refresh_rules ==
    /\ app_pc = "mainloop"
    /\ "refresh_rules" \in scheduled
    /\ refresh_rules
    /\ scheduled' = scheduled \ {"refresh_rules"}
    /\ UNCHANGED app_pc

mainloop_update_blocking(fails) ==
    /\ app_pc = "mainloop"
    /\ "update_blocking" \in scheduled
    /\ update_blocking(fails)
    /\ scheduled' = scheduled \ {"update_blocking"}
    /\ UNCHANGED app_pc

\* self.refresh_rules() at the end of create and of delete_rule, lines 267
\* and 277, which an error of the store keeps from being reached
redraws(outcome) ==
    IF outcome = "saved"
    THEN /\ LET drawn == draw_rules(rules', progress, now, <<>>)
            IN  shown' = [drawn |-> TRUE, raised |-> drawn[1], widgets |-> drawn[2],
                          at |-> now]
         /\ observed' = snapshot
    ELSE UNCHANGED <<shown, observed>>

\* the button of add_rule_dialog: create, lines 223-267, as a handler of the
\* main loop
mainloop_create(items_text, ctype, value_text, outcome) ==
    /\ app_pc = "mainloop"
    /\ Len(rules) < MaxRules
    /\ LET items == typed_items(items_text)
           condition == typed_condition(ctype, str_strip(value_text))
       IN  IF items = <<>> \/ condition = None
           THEN /\ store_last' = [op |-> "create", how |-> "rejected"]
                /\ UNCHANGED <<rules, rule_file, shown, observed>>
           ELSE /\ add(Rule(new_id, items, condition[1]), outcome)
                /\ redraws(outcome)
    /\ UNCHANGED <<progress, now, result, scheduled, app_pc>>
    /\ UNCHANGED <<blocker_vars, call_vars, sync_vars, rest_vars>>

\* the delete button of a rule: delete_rule, lines 274-277, answered with yes
mainloop_delete_rule(rule_id, outcome) ==
    /\ app_pc = "mainloop"
    /\ \E i \in DOMAIN rules : rules[i].id = rule_id
    /\ remove(rule_id, outcome)
    /\ redraws(outcome)
    /\ UNCHANGED <<progress, now, result, scheduled, app_pc>>
    /\ UNCHANGED <<blocker_vars, call_vars, sync_vars, rest_vars>>

\* the callback of the sync thread, a daemon thread that ends with the process
sync_callback(steps, workout_mins) ==
    /\ app_pc # "crashed"
    /\ on_fitness_update(steps, workout_mins)

----------------------------------------------------------------------------
(* src/windows/fitness_sync.py: the sync thread, one step at a time.       *)

\* FitnessSync.__init__, lines 27-31, with no cache file to load
FitnessSync == [steps_today |-> 0, workout_minutes_today |-> 0, running |-> FALSE]

\* a response: its status (0 when requests.get raised), the integerValue of
\* its steps and workout_mins fields (None when the field is not there), and,
\* noted beside it, the values the sync held before, whether the callbacks
\* were notified and the arguments they were called with
NoResp ==
    [status |-> 0, steps |-> None, workout_mins |-> None,
     before |-> <<0, 0>>, notified |-> FALSE, args |-> <<0, 0>>]

\* int(fields.get(name, {}).get('integerValue', 0)); None stands for ValueError
field_int(f) == IF f = None THEN Some(0) ELSE int(f[1])

\* what the sync thread leaves alone
sync_frame ==
    <<blocker_vars, rules, rule_file, now, result, store_last, call_vars,
      app_pc, observed, shown, rest_vars>>

\* sync_loop, line 116: while self._running
sync_test ==
    /\ sync_pc = "test"
    /\ sync_pc' = IF fitness.running THEN "fetch" ELSE "done"
    /\ UNCHANGED <<fitness, resp, fetched, synced, progress, scheduled>>
    /\ UNCHANGED sync_frame

\* fetch_from_firebase, lines 76-85: the request; an exception is caught on
\* lines 93-94 and, like a status other than 200, leads to return False
fetch_request(r) ==
    /\ sync_pc = "fetch"
    /\ resp' = [r EXCEPT !.before = <<fitness.steps_today, fitness.workout_minutes_today>>]
    /\ IF r.status = 200
       THEN sync_pc' = "steps" /\ UNCHANGED fetched
       ELSE sync_pc' = "sleep" /\ fetched' = "failed"
    /\ UNCHANGED <<fitness, synced, progress, scheduled>>
    /\ UNCHANGED sync_frame

\* fetch_from_firebase, line 87
fetch_steps ==
    /\ sync_pc = "steps"
    /\ IF field_int(resp.steps) = None
       THEN sync_pc' = "sleep" /\ fetched' = "failed" /\ UNCHANGED fitness
       ELSE /\ fitness' = [fitness EXCEPT !.steps_today = field_int(resp.steps)[1]]
            /\ sync_pc' = "workout"
            /\ UNCHANGED fetched
    /\ UNCHANGED <<resp, synced, progress, scheduled>>
    /\ UNCHANGED sync_frame

\* fetch_from_firebase, line 88
fetch_workout ==
    /\ sync_pc = "workout"
    /\ IF field_int(resp.workout_mins) = None
       THEN sync_pc' = "sleep" /\ fetched' = "failed" /\ UNCHANGED fitness
       ELSE /\ fitness' = [fitness EXCEPT
                             !.workout_minutes_today = field_int(resp.workout_mins)[1]]
            /\ sync_pc' = "notify"
            /\ UNCHANGED fetched
    /\ UNCHANGED <<resp, synced, progress, scheduled>>
    /\ UNCHANGED sync_frame

\* fetch_from_firebase, line 91, notify, line 70: the callback is called with
\* the two values, and on_fitness_update runs its line 281 on this thread
notify ==
    /\ sync_pc = "notify"
    /\ resp' = [resp EXCEPT !.notified = TRUE,
                            !.args = <<fitness.steps_today, fitness.workout_minutes_today>>]
    /\ synced' = synced \cup {resp'.args}
    /\ progress' = [progress EXCEPT !.steps_today = resp'.args[1]]
    /\ sync_pc' = "callback"
    /\ UNCHANGED <<fitness, fetched, scheduled>>
    /\ UNCHANGED sync_frame

\* on_fitness_update, lines 282-284, still on the sync thread, and the
\* return True of fetch_from_firebase
notify_return ==
    /\ sync_pc = "callback"
    /\ progress' = [progress EXCEPT !.workout_minutes_today = resp.args[2]]
    /\ scheduled' = scheduled \cup Handlers
    /\ fetched' = "ok"
    /\ sync_pc' = "sleep"
    /\ UNCHANGED <<fitness, resp, synced>>
    /\ UNCHANGED sync_frame

\* sync_loop, line 118: time.sleep is over
sync_wake ==
    /\ sync_pc = "sleep"
    /\ sync_pc' = "test"
    /\ UNCHANGED <<fitness, resp, fetched, synced, progress, scheduled>>
    /\ UNCHANGED sync_frame

\* notify, lines 67-72, in one piece, for the values the sync now holds:
\* the application's callback on_fitness_update, main.py:279-284
notify_whole ==
    /\ progress' = [progress EXCEPT
                      !.steps_today = fitness'.steps_today,
                      !.workout_minutes_today = fitness'.workout_minutes_today]
    /\ scheduled' = scheduled \cup Handlers

\* manual_add_steps, lines 97-101; the cache file is not looked at; resp
\* notes the values before the call and what the callbacks were called with
manual_add_steps(steps) ==
    /\ fitness.steps_today + steps <= MaxProgress
    /\ fitness' = [fitness EXCEPT !.steps_today = @ + steps]
    /\ notify_whole
    /\ resp' = [NoResp EXCEPT
                  !.before = <<fitness.steps_today, fitness.workout_minutes_today>>,
                  !.notified = TRUE,
                  !.args = <<fitness'.steps_today, fitness'.workout_minutes_today>>]
    /\ UNCHANGED <<sync_pc, fetched, synced>>
    /\ UNCHANGED sync_frame

\* manual_add_workout, lines 103-107
manual_add_workout(minutes) ==
    /\ fitness.workout_minutes_today + minutes <= MaxProgress
    /\ fitness' = [fitness EXCEPT !.workout_minutes_today = @ + minutes]
    /\ notify_whole
    /\ resp' = [NoResp EXCEPT
                  !.before = <<fitness.steps_today, fitness.workout_minutes_today>>,
                  !.notified = TRUE,
                  !.args = <<fitness'.steps_today, fitness'.workout_minutes_today>>]
    /\ UNCHANGED <<sync_pc, fetched, synced>>
    /\ UNCHANGED sync_frame

\* fetch_from_firebase, lines 74-95, in one piece with the response r
fetch_from_firebase(r) ==
    /\ LET steps == field_int(r.steps)
           workout_mins == field_int(r.workout_mins)
           before == <<fitness.steps_today, fitness.workout_minutes_today>>
       IN  IF r.status # 200 \/ steps = None
           THEN /\ fetched' = "failed"
                /\ resp' = [r EXCEPT !.before = before]
                /\ UNCHANGED <<fitness, progress, scheduled>>
           ELSE IF workout_mins = None
           THEN /\ fetched' = "failed"
                /\ resp' = [r EXCEPT !.before = before]
                /\ fitness' = [fitness EXCEPT !.steps_today = steps[1]]
                /\ UNCHANGED <<progress, scheduled>>
           ELSE /\ fetched' = "ok"
                /\ fitness' = [fitness EXCEPT !.steps_today = steps[1],
                                              !.workout_minutes_today = workout_mins[1]]
                /\ resp' = [r EXCEPT !.before = before, !.notified = TRUE,
                                     !.args = <<steps[1], workout_mins[1]>>]
                /\ notify_whole
    /\ UNCHANGED <<sync_pc, synced>>
    /\ UNCHANGED sync_frame

\* what the Firestore document may hold in a field: nothing, "30", "x"
FieldTexts == {None, Some(<<"3", "0">>), Some(<<"x">>)}

\* the responses: requests.get raises, a 404, a 200 with its two fields
Responses ==
    { [NoResp EXCEPT !.status = 0], [NoResp EXCEPT !.status = 404] } \cup
    { [NoResp EXCEPT !.status = 200, !.steps = f, !.workout_mins = g] :
        f \in FieldTexts, g \in FieldTexts }

----------------------------------------------------------------------------
(* src/desktop/window_monitor.py: the window-title classifier.             *)

\* one element of a regular expression: a literal character or a class,
\* once ("1"), once or more ("+") or at most once ("?")
Lit(c) == [k |-> "lit", c |-> c, q |-> "1"]

Cls(k, q) == [k |-> k, c |-> "", q |-> q]

\* the elements of a literal text
lits(text) == [i \in 1..Len(text) |-> Lit(text[i])]

\* \w: a letter, a digit or the underscore
IsWord(ch) ==
    \/ ch = "_"
    \/ IsDigit(ch)
    \/ \E i \in DOMAIN UpperChars : ch = UpperChars[i] \/ ch = LowerChars[i]

\* whether an element matches a character under re.IGNORECASE: "ws" is
\* [\w\s], "w-" is [\w-], "d" is \d, "." is any character but a newline
tok_matches(t, ch) ==
    IF t.k = "lit" THEN lower_char(ch) = lower_char(t.c)
    ELSE IF t.k = "ws" THEN IsWord(ch) \/ ch \in {" ", "\t", "\n"}
    ELSE IF t.k = "w-" THEN IsWord(ch) \/ ch = "-"
    ELSE IF t.k = "d" THEN IsDigit(ch)
    ELSE ch # "\n"

\* whether the elements match the whole of s
RECURSIVE re_full(_, _)
re_full(toks, s) ==
    IF toks = <<>> THEN s = <<>>
    ELSE LET t == toks[1]
             here == s # <<>> /\ tok_matches(t, s[1])
         IN  IF t.q = "1" THEN here /\ re_full(Tail(toks), Tail(s))
             ELSE IF t.q = "?"
             THEN re_full(Tail(toks), s) \/ (here /\ re_full(Tail(toks), Tail(s)))
             ELSE here /\ (re_full(Tail(toks), Tail(s)) \/ re_full(toks, Tail(s)))

\* re.search(pattern, title, re.IGNORECASE): a pattern written ^...$ matches
\* the whole title (no title ends in a newline), any other a part of it
re_search(p, s) ==
    IF p.anchored THEN re_full(p.toks, s)
    ELSE \E i \in 1..(Len(s) + 1) : \E j \in (i - 1)..Len(s) :
            re_full(p.toks, SubSeq(s, i, j))

\* a pattern written ^...$, and one written without anchors
Whole(toks) == [anchored |-> TRUE, toks |-> toks]

Part(toks) == [anchored |-> FALSE, toks |-> toks]

\* sub in s, for two texts
is_in(sub, s) ==
    \E i \in 0..(Len(s) - Len(sub)) : SubSeq(s, i + 1, i + Len(sub)) = sub

\* lines 48-87; the texts the patterns end in
Dash_Discord == <<" ","-"," ","D","i","s","c","o","r","d">>

Bar_Slack == <<" ","|"," ","S","l","a","c","k">>

APP_PATTERNS ==
    << [ name |-> <<"d","i","s","c","o","r","d">>,
         wm_class |-> << <<"d","i","s","c","o","r","d">>, <<"D","i","s","c","o","r","d">> >>,
         dm_patterns |->
            << \* ^@[\w\s]+ - Discord$
               Whole(<<Lit("@"), Cls("ws", "+")>> \o lits(Dash_Discord)),
               \* ^Discord$
               Whole(lits(<<"D","i","s","c","o","r","d">>)),
               \* ^Friends - Discord$
               Whole(lits(<<"F","r","i","e","n","d","s">> \o Dash_Discord)),
               \* ^[\w\s]+ and \d+ others? - Discord$
               Whole(<<Cls("ws", "+")>> \o lits(<<" ","a","n","d"," ">>) \o <<Cls("d", "+")>>
                     \o lits(<<" ","o","t","h","e","r">>) \o <<[Lit("s") EXCEPT !.q = "?"]>>
                     \o lits(Dash_Discord)) >>,
         server_patterns |->
            << \* ^#[\w-]+ - .+ - Discord$
               Whole(<<Lit("#"), Cls("w-", "+")>> \o lits(<<" ","-"," ">>)
                     \o <<Cls(".", "+")>> \o lits(Dash_Discord)),
               \* ^.+ - Discord$
               Whole(<<Cls(".", "+")>> \o lits(Dash_Discord)) >> ],
       [ name |-> <<"s","l","a","c","k">>,
         wm_class |-> << <<"s","l","a","c","k">>, <<"S","l","a","c","k">> >>,
         dm_patterns |->
            << \* ^\* .+ \| Slack$
               Whole(<<Lit("*"), Lit(" "), Cls(".", "+")>> \o lits(Bar_Slack)),
               \* ^[\w\s]+ \| Slack$
               Whole(<<Cls("ws", "+")>> \o lits(Bar_Slack)) >>,
         server_patterns |->
            << \* ^#[\w-]+ \| .+ \| Slack$
               Whole(<<Lit("#"), Cls("w-", "+")>> \o lits(<<" ","|"," ">>)
                     \o <<Cls(".", "+")>> \o lits(Bar_Slack)) >> ],
       [ name |-> <<"t","w","i","t","t","e","r">>,
         wm_class |-> << <<"t","w","i","t","t","e","r">>, <<"T","w","i","t","t","e","r">>, <<"T","w","e","e","t","D","e","c","k">> >>,
         dm_patterns |->
            << Part(lits(<<"M","e","s","s","a","g","e","s">>)),
               Part(lits(<<"D","i","r","e","c","t"," ","M","e","s","s","a","g","e","s">>)) >>,
         server_patterns |->
            << Part(lits(<<"H","o","m","e">>)),
               Part(lits(<<"E","x","p","l","o","r","e">>)),
               Part(lits(<<"N","o","t","i","f","i","c","a","t","i","o","n","s">>)) >> ] >>

\* lines 90-98
ALLOWED_APPS ==
    { <<"s","p","o","t","i","f","y">>,
      <<"S","p","o","t","i","f","y">>,
      <<"r","h","y","t","h","m","b","o","x">>,
      <<"R","h","y","t","h","m","b","o","x">>,
      <<"v","l","c">>,
      <<"V","L","C">>,
      <<"t","e","l","e","g","r","a","m","-","d","e","s","k","t","o","p">>,
      <<"T","e","l","e","g","r","a","m","D","e","s","k","t","o","p">>,
      <<"T","e","l","e","g","r","a","m">>,
      <<"s","i","g","n","a","l">>,
      <<"S","i","g","n","a","l">>,
      <<"e","l","e","m","e","n","t">>,
      <<"E","l","e","m","e","n","t">>,
      <<"w","h","a","t","s","a","p","p">>,
      <<"W","h","a","t","s","A","p","p">> }

\* lines 101-104
BLOCKED_APPS == { <<"n","e","t","f","l","i","x">>, <<"t","i","k","t","o","k">> }

\* the app name returned for a window of no known app
unknown == <<"u","n","k","n","o","w","n">>

\* lines 174-189 with the server patterns tried before the DM patterns
app_screen_server_first(app, title) ==
    IF \E i \in DOMAIN app.server_patterns : re_search(app.server_patterns[i], title)
    THEN "server_channel"
    ELSE IF \E i \in DOMAIN app.dm_patterns : re_search(app.dm_patterns[i], title)
    THEN "dm"
    ELSE "unknown"

\* detect_screen_type, lines 174-189: the screen type within the app whose
\* WM_CLASS matched
app_screen(app, title) ==
    IF \E i \in DOMAIN app.dm_patterns : re_search(app.dm_patterns[i], title)
    THEN "dm"
    ELSE IF \E i \in DOMAIN app.server_patterns : re_search(app.server_patterns[i], title)
    THEN "server_channel"
    ELSE "unknown"

\* detect_screen_type, lines 169-192: the loop over APP_PATTERNS in the order
\* they are written in, and the return after it
RECURSIVE app_loop(_, _, _)
app_loop(apps, wm_class_lower, title) ==
    IF apps = <<>> THEN <<unknown, "allowed">>
    ELSE IF ~ \E i \in DOMAIN apps[1].wm_class :
                 is_in(lower(apps[1].wm_class[i]), wm_class_lower)
    THEN app_loop(Tail(apps), wm_class_lower, title)
    ELSE <<apps[1].name, app_screen(apps[1], title)>>

\* detect_screen_type: every (app name, screen type) it may return; the sets
\* ALLOWED_APPS and BLOCKED_APPS are iterated in no particular order, so any
\* of their names that matches may be the one returned
detect_screen_type(window) ==
    LET wm_class_lower == lower(window.wm_class)
        allowed == {a \in ALLOWED_APPS : is_in(lower(a), wm_class_lower)}
        blocked == {b \in BLOCKED_APPS : is_in(lower(b), wm_class_lower)}
    IN  IF allowed # {} THEN {<<a, "allowed">> : a \in allowed}
        ELSE IF blocked # {} THEN {<<b, "feed">> : b \in blocked}
        ELSE {app_loop(APP_PATTERNS, wm_class_lower, window.title)}

\* WindowInfo(wm_class=wm_class, title=title), not yet classified
WindowInfo(wm_class, title) ==
    [window |-> [wm_class |-> wm_class, title |-> title],
     done |-> FALSE, app_name |-> <<>>, screen_type |-> "none"]

\* a call of detect_screen_type on the window and what it returns
call_detect_screen_type ==
    /\ detected # None
    /\ ~detected[1].done
    /\ \E r \in detect_screen_type(detected[1].window) :
          detected' = Some([detected[1] EXCEPT !.done = TRUE, !.app_name = r[1],
                                               !.screen_type = r[2]])
    /\ UNCHANGED <<resolved, analysis>>
    /\ UNCHANGED <<blocker_vars, store_vars, sync_vars, view_vars, rest_vars>>

\* check_block, lines 199-237, with every category but allowed, dm, dm_list
\* and unknown blocked
block_decision_fail_open(app_name, screen_type) ==
    [should_block |-> screen_type \notin {"allowed", "dm", "dm_list", "unknown"},
     reason |-> IF screen_type = "allowed" THEN "{} is allowed"
                ELSE IF screen_type \in {"dm", "dm_list"} THEN "{} DMs are allowed"
                ELSE IF screen_type = "server_channel"
                THEN "{} server channels are blocked. Use DMs instead."
                ELSE IF screen_type = "feed" THEN "{} is blocked. Focus on your goals."
                ELSE "{} - unknown screen, blocked by default",
     app_name |-> app_name, screen_type |-> screen_type]

\* check_block, lines 199-237: the BlockDecision for what detect_screen_type
\* returned; the reason is kept as its format
block_decision(app_name, screen_type) ==
    IF screen_type = "allowed"
    THEN [should_block |-> FALSE, reason |-> "{} is allowed",
          app_name |-> app_name, screen_type |-> screen_type]
    ELSE IF screen_type = "dm" \/ screen_type = "dm_list"
    THEN [should_block |-> FALSE, reason |-> "{} DMs are allowed",
          app_name |-> app_name, screen_type |-> screen_type]
    ELSE IF screen_type = "server_channel"
    THEN [should_block |-> TRUE,
          reason |-> "{} server channels are blocked. Use DMs instead.",
          app_name |-> app_name, screen_type |-> screen_type]
    ELSE IF screen_type = "feed"
    THEN [should_block |-> TRUE, reason |-> "{} is blocked. Focus on your goals.",
          app_name |-> app_name, screen_type |-> screen_type]
    ELSE [should_block |-> TRUE, reason |-> "{} - unknown screen, blocked by default",
          app_name |-> app_name, screen_type |-> screen_type]

\* check_block(window): every BlockDecision it may return
check_block(window) ==
    {block_decision(r[1], r[2]) : r \in detect_screen_type(window)}

\* a call of check_block on the window and the decision it returns
call_check_block ==
    /\ detected # None
    /\ ~detected[1].done
    /\ \E b \in check_block(detected[1].window) :
          detected' = Some([window |-> detected[1].window, done |-> TRUE,
                            app_name |-> b.app_name, screen_type |-> b.screen_type,
                            should_block |-> b.should_block, reason |-> b.reason])
    /\ UNCHANGED <<resolved, analysis>>
    /\ UNCHANGED <<blocker_vars, store_vars, sync_vars, view_vars, rest_vars>>

\* monitor_loop before its first iteration, lines 260-261.  The other fields
\* are the history of the last iteration: the window it saw with its verdict,
\* last_blocked_window and last_decision as they were before it, whether it
\* showed a notification; and of the iterations since the window or its
\* verdict last changed: whether one notification was shown, and a second
NoWindowSeen ==
    [last_blocked_window |-> None, last_decision |-> None,
     window |-> None, was_window |-> None, was_decision |-> None,
     notified |-> FALSE, once |-> FALSE, twice |-> FALSE]

\* the condition of monitor_loop with every iteration taken as a change
acts_on_every(window_id, decision, last_blocked_window, last_decision) == TRUE

\* "Only act on changes": the condition of lines 274-275
acts_on(window_id, decision, last_blocked_window, last_decision) ==
    \/ Some(window_id) # last_blocked_window
    \/ /\ last_decision # None
       /\ decision.should_block # last_decision[1].should_block

\* one iteration of monitor_loop, lines 264-293, with get_active_window
\* returning the focused window or None
monitor_iteration ==
    /\ IF focus = None
       THEN wmon' = [wmon EXCEPT !.window = None, !.notified = FALSE,
                                 !.was_window = wmon.last_blocked_window,
                                 !.was_decision = wmon.last_decision]
       ELSE \E decision \in check_block(focus[1]) :
              LET window_id == focus[1].window_id
                  acts == acts_on(window_id, decision, wmon.last_blocked_window,
                                  wmon.last_decision)
                  notified == acts /\ decision.should_block
                  seen == Some([window_id |-> window_id,
                                should_block |-> decision.should_block])
              IN  wmon' =
                    [last_blocked_window |->
                         IF acts THEN Some(window_id) ELSE wmon.last_blocked_window,
                     last_decision |->
                         IF acts THEN Some(decision) ELSE wmon.last_decision,
                     window |-> seen,
                     was_window |-> wmon.last_blocked_window,
                     was_decision |-> wmon.last_decision,
                     notified |-> notified,
                     once |-> IF seen = wmon.window THEN wmon.once \/ notified
                              ELSE notified,
                     twice |-> IF seen = wmon.window
                               THEN wmon.twice \/ (wmon.once /\ notified)
                               ELSE FALSE]
    /\ UNCHANGED <<focus, heartbeat, watchdog>>
    /\ UNCHANGED <<blocker_vars, store_vars, call_vars, sync_vars, view_vars,
                   loop_vars, kill_vars>>

\* the user focuses a window, a window changes its title, or nothing is
\* focused
focus_changes(window) ==
    /\ focus' = window
    /\ focus' # focus
    /\ UNCHANGED <<wmon, heartbeat, watchdog>>
    /\ UNCHANGED <<blocker_vars, store_vars, call_vars, sync_vars, view_vars,
                   loop_vars, kill_vars>>

----------------------------------------------------------------------------
(* src/windows/blocker.py: a sweep of the process monitoring, one blocked  *)
(* item at a time, while the main thread changes the blocked set.          *)

steam == <<"s","t","e","a","m">>

\* lines 33-39, the names the model blocks
APP_PROCESSES ==
    (netflix :> <<"Netflix.exe">>) @@ (steam :> <<"Steam.exe", "steamwebhelper.exe">>)

\* a thread that has not swept: items is the set its for loop iterates, left
\* what of it is still to come, issued the process names taskkill was run
\* for, swept the number of sweeps begun (2 for more); noted beside them are
\* the blocked set as it was when the sweep began and whether taskkill was
\* run for an item that was not in it
NoSweep ==
    [items |-> {}, left |-> <<>>, issued |-> {}, swept |-> 0,
     at_begin |-> {}, late |-> FALSE]

\* _kill_blocked_processes, line 112, with the set read when the thread began
\* its first sweep
blocked_at_start(t) == IF sweeps[t].swept = 0 THEN blocked_items ELSE sweeps[t].items

\* _kill_blocked_processes, line 112: for item in self.blocked_items reads
\* the attribute once, when the loop begins
blocked_now(t) == blocked_items

\* monitor, line 132, _kill_blocked_processes, line 112: the sweep begins
sweep_begin(t) ==
    /\ monitors[t].pc = "sweep"
    /\ monitors' = [monitors EXCEPT ![t].pc = "kill"]
    /\ \E order \in Orderings(blocked_now(t)) :
          sweeps' = [sweeps EXCEPT ![t] =
                       [items |-> blocked_now(t), left |-> order, issued |-> {},
                        swept |-> Min(sweeps[t].swept + 1, 2),
                        at_begin |-> blocked_items,
                        late |-> sweeps[t].late]]
    /\ UNCHANGED running
    /\ UNCHANGED <<blocker_vars, store_vars, call_vars, sync_vars, view_vars, side_vars>>

\* _kill_blocked_processes, lines 113-122, for the next item: taskkill /F for
\* each of its process names; an error of subprocess.run is swallowed
sweep_kill(t) ==
    /\ monitors[t].pc = "kill"
    /\ sweeps[t].left # <<>>
    /\ LET item == Head(sweeps[t].left)
           item_lower == lower(item)
           procs == IF item_lower \in DOMAIN APP_PROCESSES
                    THEN Range(APP_PROCESSES[item_lower]) ELSE {}
       IN  sweeps' = [sweeps EXCEPT ![t] =
                        [@ EXCEPT !.left = Tail(@),
                                  !.issued = @ \cup procs,
                                  !.late = @ \/ (procs # {} /\
                                                 item \notin sweeps[t].at_begin)]]
    /\ UNCHANGED <<running, monitors>>
    /\ UNCHANGED <<blocker_vars, store_vars, call_vars, sync_vars, view_vars, side_vars>>

\* monitor, line 133: the sweep is over, time.sleep(5)
sweep_end(t) ==
    /\ monitors[t].pc = "kill"
    /\ sweeps[t].left = <<>>
    /\ monitors' = [monitors EXCEPT ![t].pc = "test"]
    /\ UNCHANGED <<running, sweeps>>
    /\ UNCHANGED <<blocker_vars, store_vars, call_vars, sync_vars, view_vars, side_vars>>

\* update_blocked, lines 53-57, in one piece on the main thread
update_blocked_whole(items, fails) ==
    /\ LET new == {lower(items[i]) : i \in DOMAIN items}
       IN  /\ IF needs_update(new, blocked_items)
              THEN /\ blocked_items' = new
                   /\ \E order \in Orderings(new) :
                         hosts' = IF fails THEN hosts ELSE hosts_written(order)
              ELSE UNCHANGED <<blocked_items, hosts>>
    /\ UNCHANGED <<hosts0, pc, new_blocked, content, rec, calls, callers>>
    /\ UNCHANGED <<store_vars, call_vars, sync_vars, view_vars, rest_vars>>

\* clear_blocks, lines 142-145, in one piece on the main thread
clear_blocks_whole(fails) ==
    /\ blocked_items' = {}
    /\ hosts' = IF fails THEN hosts ELSE hosts_written(<<>>)
    /\ UNCHANGED <<hosts0, pc, new_blocked, content, rec, calls, callers>>
    /\ UNCHANGED <<store_vars, call_vars, sync_vars, view_vars, rest_vars>>

----------------------------------------------------------------------------
(* src/desktop/extension_watchdog.py.  The heartbeat file holds a time     *)
(* stamp that the watchdog only ever compares, as its age, with            *)
(* HEARTBEAT_TIMEOUT: the model keeps the age, in seconds, and lets it     *)
(* stay at HEARTBEAT_TIMEOUT once it has got there.                        *)

\* line 37
HEARTBEAT_TIMEOUT == 30

\* line 38
CHECK_INTERVAL == 5

\* no heartbeat file, a file that is not JSON, a file written age seconds ago
NoHeartbeat == [file |-> "missing", age |-> 0]

Unreadable == [file |-> "unreadable", age |-> 0]

Written(age) == [file |-> "json", age |-> age]

\* the watchdog before monitor_loop: lines 143-144; called is the callback the
\* last check called, found whether the last check found a heartbeat younger
\* than HEARTBEAT_TIMEOUT, logged the number of lines on_extension_dead has
\* put into bypass_attempts.log (lines 114-121), counted up to MaxLogged
NoWatchdog ==
    [pc |-> "none", extension_was_alive |-> TRUE, called |-> "none", found |-> TRUE,
     logged |-> 0]

\* get_extension_heartbeat_from_storage, lines 56-73: None when the file is
\* missing or cannot be read as JSON, else its timestamp, here as its age
get_extension_heartbeat_from_storage ==
    IF heartbeat.file = "json" THEN Some(heartbeat.age) ELSE None

\* the else branch of lines 154-155 and 163-167: a heartbeat was read and
\* its age is not below HEARTBEAT_TIMEOUT
is_stale(ext_heartbeat) ==
    ext_heartbeat # None /\ ext_heartbeat[1] >= HEARTBEAT_TIMEOUT

\* monitor_loop, lines 148-175: one check; write_desktop_heartbeat and the
\* callbacks are taken to succeed
wd_check ==
    /\ watchdog.pc = "check"
    /\ LET ext_heartbeat == get_extension_heartbeat_from_storage
           alive == watchdog.extension_was_alive
       IN  watchdog' =
             IF ext_heartbeat # None /\ ext_heartbeat[1] < HEARTBEAT_TIMEOUT
             THEN [pc |-> "sleep", extension_was_alive |-> TRUE,
                   called |-> IF alive THEN "none" ELSE "on_extension_restored",
                   found |-> TRUE, logged |-> watchdog.logged]
             ELSE IF is_stale(ext_heartbeat)
             THEN [pc |-> "sleep", extension_was_alive |-> FALSE,
                   called |-> IF alive THEN "on_extension_dead" ELSE "none",
                   found |-> FALSE,
                   logged |-> IF alive THEN Min(watchdog.logged + 1, MaxLogged)
                              ELSE watchdog.logged]
             ELSE [pc |-> "sleep", extension_was_alive |-> alive,
                   called |-> "none", found |-> FALSE, logged |-> watchdog.logged]
    /\ UNCHANGED <<heartbeat, focus, wmon>>
    /\ UNCHANGED <<blocker_vars, store_vars, call_vars, sync_vars, view_vars,
                   loop_vars, kill_vars>>

\* monitor_loop, line 177: time.sleep(CHECK_INTERVAL); the heartbeat ages
wd_sleep ==
    /\ watchdog.pc = "sleep"
    /\ watchdog' = [watchdog EXCEPT !.pc = "check"]
    /\ heartbeat' = IF heartbeat.file # "json" THEN heartbeat
                    ELSE Written(Min(heartbeat.age + CHECK_INTERVAL, HEARTBEAT_TIMEOUT))
    /\ UNCHANGED <<focus, wmon>>
    /\ UNCHANGED <<blocker_vars, store_vars, call_vars, sync_vars, view_vars,
                   loop_vars, kill_vars>>

\* the extension writes its heartbeat, or the file is removed with the
\* extension, or is left half written
extension_writes(what) ==
    /\ heartbeat' = what
    /\ heartbeat' # heartbeat
    /\ UNCHANGED <<watchdog, focus, wmon>>
    /\ UNCHANGED <<blocker_vars, store_vars, call_vars, sync_vars, view_vars,
                   loop_vars, kill_vars>>

----------------------------------------------------------------------------
(* src/ocr/screen_analyzer.py: the OCR-text classifier.  A text is taken   *)
(* as the patterns it matches: for each category the number of its strong, *)
(* of its medium and of the hinted apps' patterns that re.search finds.    *)
(* Scores are counted in halves.                                           *)

\* class ScreenType, lines 32-40, in the order declared
ScreenType ==
    <<"dm", "feed", "reels", "notifications", "profile", "search", "settings",
      "unknown">>

\* line 248: scores[screen_type] += 2.0
STRONG == 4

\* line 253: scores[screen_type] += 0.5
MEDIUM == 1

\* line 266: scores[screen_type] += 1.5
APP_BOOST == 3

\* line 278: if best_score < 1.0
BEST_MIN == 2

\* PATTERNS, lines 56-176: the categories that have strong patterns, and
\* those that have medium patterns
StrongTypes ==
    {"dm", "feed", "reels", "notifications", "profile", "search", "settings"}

MediumTypes == {"dm", "feed"}

\* APP_SPECIFIC, lines 179-204: the categories the apps have patterns for
AppTypes == {"dm", "feed"}

\* max(scores, key=scores.get) with a later key taking the place of the best
\* so far when it ties with it
beats_or_ties(scores, key, best) == scores[key] >= scores[best]

\* max(scores, key=scores.get), line 272: a later key takes the place of the
\* best so far only when its score is greater
beats(scores, key, best) == scores[key] > scores[best]

\* max over the keys that are left, in the order of the dict
RECURSIVE max_from(_, _, _)
max_from(keys, scores, best) ==
    IF keys = <<>> THEN best
    ELSE max_from(Tail(keys), scores,
                  IF beats(scores, keys[1], best) THEN keys[1] ELSE best)

\* matched[screen_type], lines 249, 254, 267: the tiers of the patterns
\* found, in the order they are appended
evidence(m, st) ==
    [i \in 1..m.strong[st] |-> "strong"] \o [i \in 1..m.medium[st] |-> "medium"]
        \o [i \in 1..m.app[st] |-> "app"]

\* classify_text, lines 237-283, for the matches m; the confidence is kept
\* as <<numerator, denominator>>
classify_text(m) ==
    LET scores == [st \in Range(ScreenType) |->
                     STRONG * m.strong[st] + MEDIUM * m.medium[st]
                         + APP_BOOST * m.app[st]]
        best_type == max_from(Tail(ScreenType), scores, ScreenType[1])
        best_score == scores[best_type]
        RECURSIVE sum(_)
        sum(keys) == IF keys = <<>> THEN 0 ELSE scores[keys[1]] + sum(Tail(keys))
        total_score == sum(ScreenType)
    IN  IF best_score < BEST_MIN
        THEN [screen_type |-> "unknown", confidence |-> <<0, 1>>, matched |-> <<>>]
        ELSE [screen_type |-> best_type,
              confidence |-> IF best_score > total_score THEN <<1, 1>>
                             ELSE <<best_score, total_score>>,
              matched |-> evidence(m, best_type)]

\* should_block, lines 286-293
ocr_should_block(screen_type) ==
    screen_type \notin {"dm", "notifications", "settings"}

\* the matches of a text, not yet classified
Matches(strong, medium, app) ==
    [matches |-> [strong |-> strong, medium |-> medium, app |-> app],
     done |-> FALSE, screen_type |-> "none", confidence |-> <<0, 1>>,
     matched |-> <<>>, should_block |-> FALSE]

\* analyze_screenshot, lines 305-318: classify_text for the text and
\* should_block for its category
call_classify_text ==
    /\ analysis # None
    /\ ~analysis[1].done
    /\ LET r == classify_text(analysis[1].matches)
       IN  analysis' = Some([analysis[1] EXCEPT
                               !.done = TRUE,
                               !.screen_type = r.screen_type,
                               !.confidence = r.confidence,
                               !.matched = r.matched,
                               !.should_block = ocr_should_block(r.screen_type)])
    /\ UNCHANGED <<resolved, detected>>
    /\ UNCHANGED <<blocker_vars, store_vars, sync_vars, view_vars, rest_vars>>

----------------------------------------------------------------------------
(* The inputs of the rule store and of the application.                    *)

\* what the user types into the items entry: nothing, blanks and a comma,
\* two items
ItemsTexts ==
    { <<>>,
      <<" ", ",", " ">>,
      <<"N","e","t","f","l","i","x",","," ","f","o","o">> }

\* what the user types into the value entry: "0", " 30 ", "17:00"
ValueTexts ==
    { <<"0">>, <<" ", "3", "0", " ">>, <<"1","7",":","0","0">> }

\* the clock: 16:30:00 and 17:01:00
NowSamples == {16 * 3600 + 30 * 60, 17 * 3600 + 60}

\* the clock where the time left matters: 15:00, 16:00, 16:30 and 17:01
EvalClock == {15 * 3600, 16 * 3600, 16 * 3600 + 30 * 60, 17 * 3600 + 60}

\* conditions of a rule the dialog creates: steps and workout targets of 0 and
\* of 30, and 17:00
EvalConditions ==
    { [Condition("steps") EXCEPT !.steps_target = Some(0)],
      [Condition("steps") EXCEPT !.steps_target = Some(30)],
      [Condition("workout") EXCEPT !.workout_minutes = Some(0)],
      [Condition("workout") EXCEPT !.workout_minutes = Some(30)],
      [Condition("time") EXCEPT !.time_target = Some(<<"1","7",":","0","0">>)] }

\* what a fitness sync reports for the steps and for the workout minutes
FitnessSamples == {0, 30}

\* conditions of the rules a rule file may hold: 30 steps, steps with no target
\* (what a target of 0 is saved as), a 30 minute workout, 17:00, a password
FileConditions ==
    { [Condition("steps") EXCEPT !.steps_target = Some(30)],
      Condition("steps"),
      [Condition("workout") EXCEPT !.workout_minutes = Some(30)],
      [Condition("time") EXCEPT !.time_target = Some(<<"1","7",":","0","0">>)],
      Condition("password") }

\* the rules a rule file may hold, but for their ids
FileRules ==
    { [Rule(0, items, c) EXCEPT !.enabled = e] :
        items \in {<<Netflix>>, <<netflix, foo>>}, c \in FileConditions, e \in BOOLEAN }

\* the rule files of at most n rules, the rules numbered as they come
RuleFiles(n) ==
    {NoFile} \cup
    { saved([i \in DOMAIN rs |-> [rs[i] EXCEPT !.id = i]]) : rs \in SeqUpTo(FileRules, n) }

\* a record of a rule file without one of its keys
without(d, key) == [k \in DOMAIN d \ {key} |-> d[k]]

\* the records a rule file written by hand or by another version may hold:
\* two rules as save writes them, and records that lack their id, their
\* blocked_items, their condition or their condition's type, or whose
\* condition has a type that ConditionType does not have
FileRecords ==
    LET workout == [Condition("workout") EXCEPT !.workout_minutes = Some(30)]
        d == Rule_to_dict(Rule(1, <<Netflix>>, workout))
    IN  { d,
          Rule_to_dict(Rule(2, <<foo>>, Condition("password"))),
          without(d, "id"),
          without(d, "blocked_items"),
          without(d, "condition"),
          [d EXCEPT !.condition = without(d.condition, "type")],
          [d EXCEPT !.condition.type = "bogus"] }

\* the rule files of at most n such records, and a file that is not JSON
RecordFiles(n) ==
    {NoFile, [state |-> "cut short", rules |-> <<>>]} \cup
    { [state |-> "ok", rules |-> ds] : ds \in SeqUpTo(FileRecords, n) }

\* the WM_CLASS of a window: the known apps, an allowed and a blocked app,
\* classes that hold two names, a browser
WmClasses ==
    { <<"d","i","s","c","o","r","d">>, <<"D","i","s","c","o","r","d">>, <<"s","l","a","c","k">>, <<"T","w","e","e","t","D","e","c","k">>, <<"s","p","o","t","i","f","y">>, <<"t","e","l","e","g","r","a","m","-","d","e","s","k","t","o","p">>,
      <<"n","e","t","f","l","i","x">>, <<"n","e","t","f","l","i","x","-","s","p","o","t","i","f","y">>, <<"d","i","s","c","o","r","d","-","s","l","a","c","k">>, <<"f","i","r","e","f","o","x">> }

\* the titles: an optional mark, a name, an optional server or workspace, and
\* how the app ends its titles; and the home screen of Discord
Titles ==
    { pre \o name \o mid \o suf :
        pre \in { <<>>, <<"@">>, <<"#">>, <<"*", " ">> },
        name \in { <<"a","l","i","c","e">>, <<"g","e","n","e","r","a","l">>, <<"J","o","h","n"," ","D","o","e">>, <<"v","o","i","c","e","-","c","h","a","t">>, <<"F","r","i","e","n","d","s">>,
                   <<"J","o","h","n"," ","a","n","d"," ","2"," ","o","t","h","e","r","s">>, <<"M","e","s","s","a","g","e","s">>, <<"H","o","m","e">> },
        mid \in { <<>>, <<" ","-"," ","M","y"," ","S","e","r","v","e","r">>, <<" ","|"," ","C","o","m","p","a","n","y">> },
        suf \in { <<>>, <<" ","-"," ","D","i","s","c","o","r","d">>, <<" ","-"," ","D","I","S","C","O","R","D">>, <<" ","|"," ","S","l","a","c","k">> } }
    \cup { <<"D","i","s","c","o","r","d">> }

\* the numbers of matches per category: none where the tier or the apps have
\* no pattern for the category, at most MaxMatches elsewhere
MatchCounts(types) ==
    { f \in [Range(ScreenType) -> 0..MaxMatches] :
        \A st \in Range(ScreenType) \ types : f[st] = 0 }

----------------------------------------------------------------------------
(* Specifications.                                                         *)

\* no function has been looked at on its own
CallsUnused == resolved = None /\ detected = None /\ analysis = None

\* the sync loop has not been started
SyncUnused ==
    /\ fitness = FitnessSync
    /\ sync_pc = "none"
    /\ resp = NoResp
    /\ fetched = "never"
    /\ synced = {<<0, 0>>}

\* nothing is queued, read or drawn; the start-up is not looked at
ViewUnused ==
    scheduled = {} /\ app_pc = "none" /\ observed = None /\ shown = NotShown

\* WindowsBlocker.__init__, lines 49-50: no monitoring yet
LoopsUnused == running = FALSE /\ monitors = [t \in MonitorThreads |-> NoMonitor]

\* no sweep yet
KillUnused == sweeps = [t \in MonitorThreads |-> NoSweep]

\* the watchdog is not run
DogUnused == heartbeat = NoHeartbeat /\ watchdog = NoWatchdog

\* the window monitor is not run
WmonUnused == focus = None /\ wmon = NoWindowSeen

SideUnused == DogUnused /\ WmonUnused

RestUnused == LoopsUnused /\ KillUnused /\ SideUnused

ExtUnused == CallsUnused /\ SyncUnused /\ ViewUnused /\ RestUnused

StoreIdle ==
    /\ progress = Progress
    /\ result = NoResult
    /\ store_last = [op |-> "none", how |-> "none"]

StoreUnused ==
    /\ rule_file = NoFile
    /\ rules = load(rule_file)
    /\ now \in {16 * 3600 + 30 * 60}
    /\ StoreIdle

\* the enforcement engine with one caller
Init == BlockerInit({"main"}) /\ StoreUnused /\ ExtUnused

Next ==
    \/ \E t \in callers, items \in SeqUpTo(ItemNames, MaxItems) :
          update_blocked(t, items) /\ UNCHANGED <<store_vars, ext_vars>>
    \/ \E t \in callers : update_assign(t) /\ UNCHANGED <<store_vars, ext_vars>>
    \/ \E t \in callers : clear_blocks(t) /\ UNCHANGED <<store_vars, ext_vars>>
    \/ \E t \in callers : apply_read(t) /\ UNCHANGED <<store_vars, ext_vars>>
    \/ \E t \in callers : apply_test(t) /\ UNCHANGED <<store_vars, ext_vars>>
    \/ \E t \in callers : apply_build(t) /\ UNCHANGED <<store_vars, ext_vars>>
    \/ \E t \in callers : apply_write(t) /\ UNCHANGED <<store_vars, ext_vars>>
    \/ \E t \in callers : apply_flush(t) /\ UNCHANGED <<store_vars, ext_vars>>
    \/ \E t \in callers : apply_error(t) /\ UNCHANGED <<store_vars, ext_vars>>

Spec == Init /\ [][Next]_vars

InitConc == BlockerInit(Threads) /\ StoreUnused /\ ExtUnused

\* the calls begun so far, while the log is not full
Begun == Len(calls) + Cardinality({t \in Threads : pc[t] # "idle"})

\* the concurrent scenario: two calls in all, by either thread, at any time
\* relative to each other
NextConc ==
    \/ /\ Begun < 2
       /\ \E t \in callers, items \in SeqUpTo(ItemNames, MaxItems) :
             update_blocked(t, items) /\ UNCHANGED <<store_vars, ext_vars>>
    \/ \E t \in callers : update_assign(t) /\ UNCHANGED <<store_vars, ext_vars>>
    \/ Begun < 2 /\ \E t \in callers : clear_blocks(t) /\ UNCHANGED <<store_vars, ext_vars>>
    \/ \E t \in callers : apply_read(t) /\ UNCHANGED <<store_vars, ext_vars>>
    \/ \E t \in callers : apply_test(t) /\ UNCHANGED <<store_vars, ext_vars>>
    \/ \E t \in callers : apply_build(t) /\ UNCHANGED <<store_vars, ext_vars>>
    \/ \E t \in callers : apply_write(t) /\ UNCHANGED <<store_vars, ext_vars>>
    \/ \E t \in callers : apply_flush(t) /\ UNCHANGED <<store_vars, ext_vars>>
    \/ \E t \in callers : apply_error(t) /\ UNCHANGED <<store_vars, ext_vars>>

\* two threads call into the same blocker
SpecConc == InitConc /\ [][NextConc]_vars

\* the rules read from a rule file at start-up, evaluated as the progress and
\* the clock change
InitRules ==
    /\ BlockerInit({"main"}) /\ hosts = <<>>
    /\ rule_file \in RuleFiles(MaxFileRules)
    /\ rules = load(rule_file)
    /\ now \in NowSamples
    /\ StoreIdle
    /\ ExtUnused

NextRules ==
    \/ \E steps, workout_mins \in FitnessSamples : on_fitness_update(steps, workout_mins)
    \/ app_get_blocked_items

SpecRules == InitRules /\ [][NextRules]_vars

\* the rule store as the user adds and deletes rules
InitStore ==
    /\ BlockerInit({"main"}) /\ hosts = <<>>
    /\ rule_file \in RuleFiles(0) \cup
                     {saved(<<Rule(1, <<foo>>, [Condition("workout") EXCEPT
                                                  !.workout_minutes = Some(30)])>>)}
    /\ rules = load(rule_file)
    /\ now \in {16 * 3600 + 30 * 60}
    /\ StoreIdle
    /\ ExtUnused

NextStore ==
    \/ \E items_text \in ItemsTexts, ctype \in ConditionTypes,
          value_text \in ValueTexts, outcome \in SaveOutcomes :
          create(items_text, ctype, value_text, outcome)
    \/ \E rule_id \in 1..MaxRules, outcome \in SaveOutcomes :
          delete_rule(rule_id, outcome)

SpecStore == InitStore /\ [][NextStore]_vars

\* the rule store is constructed on a rule file of any content
InitLoad ==
    /\ BlockerInit({"main"}) /\ hosts = <<>>
    /\ rule_file \in RecordFiles(MaxFileRules)
    /\ rules = <<>>
    /\ now \in {16 * 3600 + 30 * 60}
    /\ StoreIdle
    /\ ExtUnused

NextLoad == RuleStore_init

SpecLoad == InitLoad /\ [][NextLoad]_vars

\* item names are resolved, one call after another
InitResolve ==
    /\ BlockerInit({"main"}) /\ hosts = <<>>
    /\ StoreUnused
    /\ ExtUnused

NextResolve == \E name \in ResolvedNames : call_get_domains_for_item(name)

SpecResolve == InitResolve /\ [][NextResolve]_vars

\* the application with a steps rule and a workout rule, its sync thread
\* running: TotalControlApp.__init__, lines 50-57
InitSync ==
    /\ BlockerInit({"main"}) /\ hosts = <<>>
    /\ rule_file = saved(<<Rule(1, <<Netflix>>,
                                 [Condition("steps") EXCEPT !.steps_target = Some(30)]),
                            Rule(2, <<foo>>,
                                 [Condition("workout") EXCEPT !.workout_minutes = Some(30)])>>)
    /\ rules = load(rule_file)
    /\ now \in {16 * 3600 + 30 * 60}
    /\ StoreIdle
    /\ CallsUnused /\ ViewUnused /\ RestUnused
    /\ fitness = [FitnessSync EXCEPT !.running = TRUE]
    /\ sync_pc = "test"
    /\ resp = NoResp
    /\ fetched = "never"
    /\ synced = {<<0, 0>>}

NextSync ==
    \/ sync_test
    \/ \E r \in Responses : fetch_request(r)
    \/ fetch_steps
    \/ fetch_workout
    \/ notify
    \/ notify_return
    \/ sync_wake
    \/ refresh_rules /\ scheduled' = scheduled \ {"refresh_rules"} /\ UNCHANGED app_pc
    \/ /\ "update_blocking" \in scheduled
       /\ \E fails \in BOOLEAN : update_blocking(fails)
       /\ scheduled' = scheduled \ {"update_blocking"}
       /\ UNCHANGED app_pc

SpecSync == InitSync /\ [][NextSync]_vars

\* a day of the fitness sync: manual additions of 10 or 30, and fetches
InitManual ==
    /\ BlockerInit({"main"}) /\ hosts = <<>>
    /\ StoreUnused
    /\ CallsUnused /\ SyncUnused /\ ViewUnused /\ RestUnused

NextManual ==
    \/ \E steps \in {10, 30} : manual_add_steps(steps)
    \/ \E minutes \in {10, 30} : manual_add_workout(minutes)
    \/ \E r \in Responses : fetch_from_firebase(r)

SpecManual == InitManual /\ [][NextManual]_vars

\* the process monitoring of one blocker, started and stopped at any time
InitLoops ==
    /\ BlockerInit({"main"}) /\ hosts = <<>>
    /\ StoreUnused
    /\ ExtUnused

NextLoops ==
    \/ start_monitoring
    \/ stop_monitoring
    \/ \E t \in MonitorThreads : monitor_test(t)
    \/ \E t \in MonitorThreads : monitor_sweep(t)

SpecLoops == InitLoops /\ [][NextLoops]_vars

\* the application is constructed on a rule file of at most one rule and then
\* runs its main loop: TotalControlApp.__init__, lines 50-64, root.mainloop()
InitApp ==
    /\ BlockerInit({"main"}) /\ hosts = <<>>
    /\ rule_file \in RuleFiles(1)
    /\ rules = load(rule_file)
    /\ now \in NowSamples
    /\ StoreIdle
    /\ CallsUnused /\ SyncUnused /\ RestUnused
    /\ scheduled = {} /\ observed = None /\ shown = NotShown
    /\ app_pc = "refresh_rules"

NextApp ==
    \/ init_refresh_rules
    \/ \E fails \in BOOLEAN : init_update_blocking(fails)
    \/ mainloop_refresh_rules
    \/ \E fails \in BOOLEAN : mainloop_update_blocking(fails)
    \/ \E steps, workout_mins \in FitnessSamples : sync_callback(steps, workout_mins)
    \/ app_pc # "crashed" /\ \E later \in NowSamples : tick(later)

SpecApp == InitApp /\ [][NextApp]_vars

\* the application is constructed with no rule file
InitEnforce ==
    /\ BlockerInit({"main"}) /\ hosts = <<>>
    /\ StoreUnused
    /\ CallsUnused /\ SyncUnused /\ RestUnused
    /\ scheduled = {} /\ observed = None /\ shown = NotShown
    /\ app_pc = "refresh_rules"

\* the application from its construction on, with the user adding rules that
\* block Netflix until 30 steps are done, and deleting
\* rules, and the sync thread reporting progress now and then
NextEnforce ==
    \/ init_refresh_rules
    \/ \E fails \in BOOLEAN : init_update_blocking(fails)
    \/ mainloop_refresh_rules
    \/ \E fails \in BOOLEAN : mainloop_update_blocking(fails)
    \/ \E steps, workout_mins \in FitnessSamples : sync_callback(steps, workout_mins)
    \/ \E outcome \in SaveOutcomes :
          mainloop_create(<<"N","e","t","f","l","i","x">>, "steps",
                          <<" ", "3", "0", " ">>, outcome)
    \/ \E rule_id \in 1..MaxRules, outcome \in SaveOutcomes :
          mainloop_delete_rule(rule_id, outcome)

SpecEnforce == InitEnforce /\ [][NextEnforce]_vars

\* the main thread goes on with __init__ and then runs every handler that is
\* queued; the user and the sync thread's callback need not come
SpecEnforceFair ==
    /\ SpecEnforce
    /\ WF_vars(init_refresh_rules)
    /\ WF_vars(\E fails \in BOOLEAN : init_update_blocking(fails))
    /\ WF_vars(mainloop_refresh_rules)
    /\ WF_vars(\E fails \in BOOLEAN : mainloop_update_blocking(fails))

\* the store holds one rule as add_rule_dialog.create left it; the rule list
\* is drawn again and again as the progress and the clock change
InitEval ==
    /\ BlockerInit({"main"}) /\ hosts = <<>>
    /\ \E c \in EvalConditions : rules = <<Rule(1, <<Netflix>>, c)>>
    /\ rule_file = saved(rules)
    /\ now \in EvalClock
    /\ StoreIdle
    /\ ExtUnused

NextEval ==
    \/ refresh_rules /\ scheduled' = scheduled \ {"refresh_rules"} /\ UNCHANGED app_pc
    \/ \E steps, workout_mins \in FitnessSamples : on_fitness_update(steps, workout_mins)
    \/ \E later \in EvalClock : tick(later)

SpecEval == InitEval /\ [][NextEval]_vars

\* a window of any class and title is classified
InitDetect ==
    /\ BlockerInit({"main"}) /\ hosts = <<>>
    /\ StoreUnused
    /\ resolved = None /\ analysis = None
    /\ \E wm_class \in WmClasses, title \in Titles :
          detected = Some(WindowInfo(wm_class, title))
    /\ SyncUnused /\ ViewUnused /\ RestUnused

NextDetect == call_detect_screen_type

SpecDetect == InitDetect /\ [][NextDetect]_vars

\* a window of any class and title is put to check_block
NextBlock == call_check_block

SpecBlock == InitDetect /\ [][NextBlock]_vars

\* a text of any matches is classified
InitClassify ==
    /\ BlockerInit({"main"}) /\ hosts = <<>>
    /\ StoreUnused
    /\ resolved = None /\ detected = None
    /\ \E strong \in MatchCounts(StrongTypes), medium \in MatchCounts(MediumTypes),
          app \in MatchCounts(AppTypes) :
          analysis = Some(Matches(strong, medium, app))
    /\ SyncUnused /\ ViewUnused /\ RestUnused

NextClassify == call_classify_text

SpecClassify == InitClassify /\ [][NextClassify]_vars

\* the monitoring runs, started by TotalControlApp.__init__, main.py:63,
\* while the main thread changes the blocked set
InitKill ==
    /\ BlockerInit({"main"}) /\ hosts = <<>>
    /\ StoreUnused
    /\ CallsUnused /\ SyncUnused /\ ViewUnused
    /\ running = TRUE
    /\ monitors = [t \in MonitorThreads |->
                     IF t = 1 THEN [NoMonitor EXCEPT !.pc = "test"] ELSE NoMonitor]
    /\ KillUnused /\ SideUnused

NextKill ==
    \/ \E t \in MonitorThreads : monitor_test(t)
    \/ \E t \in MonitorThreads : sweep_begin(t)
    \/ \E t \in MonitorThreads : sweep_kill(t)
    \/ \E t \in MonitorThreads : sweep_end(t)
    \/ \E items \in SeqUpTo({Netflix, steam, foo}, MaxItems), fails \in BOOLEAN :
          update_blocked_whole(items, fails)
    \/ \E fails \in BOOLEAN : clear_blocks_whole(fails)

SpecKill == InitKill /\ [][NextKill]_vars

\* the windows of the desktop: two windows, each of an app and with a title
\* that make every kind of verdict
FocusWindows ==
    { [window_id |-> id, wm_class |-> wm_class, title |-> title] :
        id \in {"0x1", "0x2"},
        wm_class \in { <<"d","i","s","c","o","r","d">>, <<"n","e","t","f","l","i","x">>,
                       <<"f","i","r","e","f","o","x">> },
        title \in { <<"@","a","l","i","c","e"," ","-"," ","D","i","s","c","o","r","d">>,
                    <<"#","g","e","n","e","r","a","l"," ","-"," ","M","y"," ","S","e","r","v","e","r"," ","-"," ","D","i","s","c","o","r","d">>,
                    <<"H","o","m","e">> } }

\* the window monitor runs on a desktop with nothing focused
InitMonitor ==
    /\ BlockerInit({"main"}) /\ hosts = <<>>
    /\ StoreUnused
    /\ CallsUnused /\ SyncUnused /\ ViewUnused /\ LoopsUnused /\ KillUnused
    /\ DogUnused
    /\ focus = None /\ wmon = NoWindowSeen

NextMonitor ==
    \/ monitor_iteration
    \/ \E window \in {None} \cup {Some(w) : w \in FocusWindows} : focus_changes(window)

SpecMonitor == InitMonitor /\ [][NextMonitor]_vars

\* the watchdog runs; the extension may be there or not
InitDog ==
    /\ BlockerInit({"main"}) /\ hosts = <<>>
    /\ StoreUnused
    /\ CallsUnused /\ SyncUnused /\ ViewUnused /\ LoopsUnused /\ KillUnused
    /\ heartbeat \in {NoHeartbeat, Written(0)}
    /\ watchdog = [NoWatchdog EXCEPT !.pc = "check"]
    /\ WmonUnused

NextDog ==
    \/ wd_check
    \/ wd_sleep
    \/ \E what \in {Written(0), NoHeartbeat, Unreadable} : extension_writes(what)

SpecDog == InitDog /\ [][NextDog]_vars

\* the watchdog's loop goes on: it is the only thread of its process
SpecDogFair == SpecDog /\ WF_vars(wd_check) /\ WF_vars(wd_sleep)

----------------------------------------------------------------------------
(* The hosts file as the claims speak of it.                               *)

AllIdle == \A t \in Threads : pc[t] = "idle"

Last == calls[Len(calls)]

\* position i of c lies in a managed region: from a start marker to the
\* nearest end marker after it, both included
InManaged(c, i) ==
    /\ \E a \in 1..i : /\ c[a] = MARKER_START
                       /\ \A k \in a..(i - 1) : c[k] # MARKER_END
    /\ \E b \in i..Len(c) : c[b] = MARKER_END

RECURSIVE Pick(_, _, _)
Pick(c, keep, i) ==
    IF i > Len(c) THEN <<>>
    ELSE (IF i \in keep THEN <<c[i]>> ELSE <<>>) \o Pick(c, keep, i + 1)

\* what lies outside the managed regions, in order
Outside(c) == Pick(c, {i \in 1..Len(c) : ~InManaged(c, i)}, 1)

\* the lines between the markers, in order
ManagedLines(c) ==
    Pick(c, {i \in 1..Len(c) : InManaged(c, i)
                              /\ c[i] \notin {MARKER_START, MARKER_END, NL}}, 1)

Count(c, x) == Cardinality({i \in 1..Len(c) : c[i] = x})

\* the domains a set of items resolves to
ResolvedDomains(S) == UNION {Range(get_domains_for_item(item)) : item \in S}

NoRegion(c) == Count(c, MARKER_START) = 0 /\ Count(c, MARKER_END) = 0

OneRegion(c) ==
    /\ Count(c, MARKER_START) = 1
    /\ Count(c, MARKER_END) = 1
    /\ \E a, b \in 1..Len(c) : a < b /\ c[a] = MARKER_START /\ c[b] = MARKER_END

\* the managed region of c blocks the domains of S and nothing else
RegionAgrees(c, S) ==
    IF S = {} THEN NoRegion(c)
    ELSE /\ OneRegion(c)
         /\ Range(ManagedLines(c)) =
              UNION {{HostLine(d), WwwLine(d)} : d \in ResolvedDomains(S)}

\* ... with exactly one line for every domain and variant
RegionExact(c, S) ==
    /\ RegionAgrees(c, S)
    /\ \A d \in ResolvedDomains(S) :
          /\ Count(ManagedLines(c), HostLine(d)) = 1
          /\ Count(ManagedLines(c), WwwLine(d)) = 1

----------------------------------------------------------------------------
(* Claims about the enforcement engine.                                    *)

\* C1 (as amended): a call of update_blocked with items that name, case and
\* order aside, the recorded blocked set writes nothing to the hosts file and
\* flushes no DNS cache; so of two calls in a row with the same set, the first
\* of which did not fail, the second writes and flushes nothing, and the first
\* writes exactly when its set differed from the set recorded before it.
C1_Idempotent ==
    /\ \A i \in DOMAIN calls :
          calls[i].op = "update" /\ calls[i].same =>
              ~calls[i].wrote /\ ~calls[i].flushed /\ ~calls[i].failed
    /\ Len(calls) = 2 /\ Last.again /\ ~calls[1].failed =>
          /\ ~Last.wrote /\ ~Last.flushed /\ ~Last.failed
          /\ calls[1].wrote <=> ~calls[1].same

\* C1, witness: an update wrote a non-empty set and the next call, handed the
\* same set, wrote nothing
C1_Witness ==
    /\ Len(calls) = 2 /\ Last.again /\ Last.new # {}
    /\ calls[1].wrote /\ ~Last.wrote

\* C1 (as stated): two calls in a row with the same set perform exactly one
\* hosts-file write
C1_ExactlyOneWrite ==
    Len(calls) = 2 /\ Last.again =>
        Cardinality({i \in DOMAIN calls : calls[i].wrote}) = 1

\* C2: calls that run at the same time serialize, so once the calls are over,
\* none of them has failed and the last of them to finish has written the
\* hosts file, the managed region is the one of the recorded blocked set
C2_Serialized ==
    (AllIdle /\ calls # <<>> /\ Last.wrote /\ \A i \in DOMAIN calls : ~calls[i].failed)
        => RegionAgrees(hosts, blocked_items)

\* C3: what lies outside the managed region is what it was when the blocker
\* was constructed, verbatim and in order
C3_OutsidePreserved == Outside(hosts) = Outside(hosts0)

\* C4: after a successful rewrite the file holds no managed region when the
\* blocked set is empty and else exactly one, with exactly one bare and one
\* www. line for every resolved domain and nothing else
C4_RegionExact ==
    AllIdle /\ calls # <<>> /\ Last.wrote => RegionExact(hosts, blocked_items)

\* C5: a call whose hosts-file access failed leaves the recorded blocked set
\* as it found it, so that the next call with the same set tries again
C5_FailKeepsSet ==
    /\ calls # <<>> /\ Last.failed => Last.kept
    /\ Len(calls) = 2 /\ Last.again /\ calls[1].failed =>
          Last.wrote \/ Last.failed

----------------------------------------------------------------------------
(* Claims about the rule store.                                            *)

\* the condition of rule r is unmet under the progress and the clock
Unmet(r) ==
    LET checked == check_condition(progress, r.condition, now)
    IN  ~checked.raised /\ ~checked.met

\* the items of the rules of rs that are enabled and unmet
UnmetItems(rs) ==
    UNION {Range(rs[i].blocked_items) : i \in {j \in DOMAIN rs : rs[j].enabled /\ Unmet(rs[j])}}

\* C6: what get_blocked_items returns is exactly the union of the
\* blocked_items of the rules that are enabled and unmet; with a rule disabled
\* it returns the union over the other rules, and with the rule enabled again
\* the rule's items are back
C6_UnionOfEnabledUnmet ==
    /\ result.returned => result.items = UnmetItems(rules)
    /\ \A i \in DOMAIN rules :
          LET off == get_blocked_items([rules EXCEPT ![i].enabled = FALSE], progress, now)
              on  == get_blocked_items([rules EXCEPT ![i].enabled = TRUE], progress, now)
              others == UnmetItems([rules EXCEPT ![i].enabled = FALSE])
          IN  /\ off.returned => off.items = others
              /\ off.returned /\ on.returned =>
                    on.items = others \cup
                        (IF Unmet(rules[i]) THEN Range(rules[i].blocked_items) ELSE {})

\* C6, witness: a call returned items of an unmet rule and none of the items
\* that only a disabled unmet rule lists
C6_Witness ==
    /\ result.returned /\ result.items # {}
    /\ \E i \in DOMAIN rules :
          /\ ~rules[i].enabled /\ Unmet(rules[i])
          /\ \E x \in Range(rules[i].blocked_items) : x \notin result.items

\* C7: what get_blocked_items returns is case-folded and de-duplicated: no
\* item has an upper-case letter and no two items differ in case only
C7_CaseFolded ==
    result.returned =>
        /\ \A x \in result.items : lower(x) = x
        /\ \A x, y \in result.items : lower(x) = lower(y) => x = y

\* C8: for every order of the rules get_blocked_items returns the same set
C8_Commutative ==
    result.returned =>
        \A order \in Orderings(DOMAIN rules) :
            get_blocked_items([i \in DOMAIN rules |-> rules[order[i]]], progress, now)
                = result

\* C8, witness: a call returned the items of two unmet rules that list
\* different items
C8_Witness ==
    /\ result.returned
    /\ \E i, j \in DOMAIN rules :
          /\ i # j /\ rules[i].enabled /\ rules[j].enabled
          /\ Unmet(rules[i]) /\ Unmet(rules[j])
          /\ Range(rules[i].blocked_items) # Range(rules[j].blocked_items)

\* C9: whenever add or remove has returned or failed, the rule file holds the
\* full collection of the rules the store holds
C9_Persisted ==
    store_last.op \in {"add", "remove"} => rule_file = saved(rules)

\* the condition carries the valid payload of its kind
ValidCondition(c) ==
    /\ c.type = "steps" => c.steps_target # None /\ c.steps_target[1] > 0
    /\ c.type = "workout" => c.workout_minutes # None /\ c.workout_minutes[1] > 0
    /\ c.type = "time" => c.time_target # None /\ strptime_HM(c.time_target[1]) # None
    /\ c.type = "location" => c.location # None

ValidRule(r) == r.blocked_items # <<>> /\ ValidCondition(r.condition)

\* C10: every rule of the store, and of the rule file, has items and a
\* condition with the valid payload of its kind
C10_OnlyValidRules ==
    /\ \A i \in DOMAIN rules : ValidRule(rules[i])
    /\ \A i \in DOMAIN rule_file.rules : ValidRule(Rule_from_dict(rule_file.rules[i]))

\* a record that can be parsed: it has an id, blocked_items and a condition
\* of a known type
WellFormed(d) ==
    /\ {"id", "blocked_items", "condition"} \subseteq DOMAIN d
    /\ "type" \in DOMAIN d.condition
    /\ d.condition.type \in ConditionTypes

\* C11: loading a rule file that holds a list of records does not raise, and
\* the rules loaded are exactly the well-formed records, in their order
C11_LoadSkipsMalformed ==
    store_last.op = "load" /\ rule_file.state = "ok" =>
        /\ store_last.how = "returned"
        /\ rules = [i \in 1..Len(SelectSeq(rule_file.rules, WellFormed)) |->
                       Rule_from_dict(SelectSeq(rule_file.rules, WellFormed)[i])]

\* C12: an item name resolves to the alias's domain list when its lower-cased
\* form is a known alias, else to its lower-cased form when that has a dot,
\* else to its lower-cased form with ".com" appended; "netflix" gives its
\* alias list, "example.org" itself and "foo" gives "foo.com"
C12_Resolution ==
    resolved # None =>
        LET name == lower(resolved[1].item)
            got  == resolved[1].domains
        IN  /\ name \in DOMAIN SITE_DOMAINS => got = SITE_DOMAINS[name]
            /\ name \notin DOMAIN SITE_DOMAINS /\ contains(name, ".") => got = <<name>>
            /\ name \notin DOMAIN SITE_DOMAINS /\ ~contains(name, ".") =>
                  got = <<name \o <<".", "c", "o", "m">> >>
            /\ resolved[1].item = netflix =>
                  got = << netflix_com,
                           <<"n","f","l","x","v","i","d","e","o",".","n","e","t">>,
                           <<"n","f","l","x","i","m","g",".","n","e","t">>,
                           <<"n","f","l","x","s","o",".","n","e","t">> >>
            /\ resolved[1].item = example_org => got = <<example_org>>
            /\ resolved[1].item = foo => got = <<<<"f","o","o",".","c","o","m">>>>

\* C12, witness: a name in upper and lower case resolved to the domains of the
\* alias it is in lower case
C12_Witness ==
    /\ resolved # None
    /\ resolved[1].item # lower(resolved[1].item)
    /\ lower(resolved[1].item) \in DOMAIN SITE_DOMAINS
    /\ Len(resolved[1].domains) = 2

\* C13: a foreground evaluation reads a complete progress record: the steps
\* and the workout minutes of one sync result, never the steps of one result
\* with the minutes of another
C13_WholeSnapshot == observed # None => observed[1] \in synced

\* C14: a fetch that failed has left both values of the sync as they were and
\* has notified no callback
C14_FailedFetchKeepsValues ==
    fetched = "failed" /\ sync_pc \in {"sleep", "test", "fetch"} =>
        /\ <<fitness.steps_today, fitness.workout_minutes_today>> = resp.before
        /\ ~resp.notified

\* C15: a monitor thread that was running when stop_monitoring was called
\* begins at most one more sweep, also when monitoring is started again
C15_StopsWithinOneSweep == \A t \in MonitorThreads : monitors[t].more <= 1

\* C16: no error crashes the program: evaluating the stored rules at start-up
\* and in the handlers of a fitness update never propagates an exception
C16_NoErrorEscapes ==
    /\ app_pc # "crashed"
    /\ ~shown.raised
    /\ ~result.raised

\* the rule list shows one rule of the given type
Drawn(type) == shown.drawn /\ Len(rules) = 1 /\ rules[1].condition.type = type

\* C17: a steps or workout condition with a target of zero is evaluated
\* without an error and reported as met, whatever the progress
C17_ZeroTargetIsMet ==
    LET c == rules[1].condition
    IN  \/ Drawn("steps") /\ c.steps_target = Some(0)
        \/ Drawn("workout") /\ c.workout_minutes = Some(0)
        => /\ ~shown.raised
           /\ Len(shown.widgets) = 1
           /\ shown.widgets[1].met

\* C18: a time condition is met iff the clock is at or after the target; when
\* it is not, with r whole minutes left, the text is "Xh Ym left" for r >= 60
\* and "Ym left" for r < 60
C18_TimeLeftText ==
    Drawn("time") /\ strptime_HM(rules[1].condition.time_target[1]) # None =>
        LET hm == strptime_HM(rules[1].condition.time_target[1])[1]
            target == hm[1] * 3600 + hm[2] * 60
            r == (target - shown.at) \div 60
            w == shown.widgets[1]
        IN  /\ ~shown.raised
            /\ Len(shown.widgets) = 1
            /\ w.met <=> shown.at >= target
            /\ ~w.met /\ r >= 60 =>
                  w.fmt = "{}h {}m left" /\ w.args = <<r \div 60, r % 60>>
            /\ ~w.met /\ r < 60 => w.fmt = "{}m left" /\ w.args = <<r>>

\* C19: two evaluations of the same condition with the same progress give
\* the same result: when the rule list was drawn from the rules and the
\* progress that are there now, drawing it again gives the same list
C19_Deterministic ==
    [][/\ shown.drawn /\ shown'.drawn
       /\ observed = snapshot
       /\ rules' = rules /\ progress' = progress
       => shown'.raised = shown.raised /\ shown'.widgets = shown.widgets]_vars

\* a name of the set is part of the window class, both in lower case
ClassMatches(names, wm_class) ==
    \E n \in names : is_in(lower(n), lower(wm_class))

\* C20: the classifier gives allowed for a class that matches the allowed
\* set, else feed for one that matches the blocked set, else, within the first
\* app definition whose class matches, dm when a DM pattern matches the title,
\* else server_channel when a server pattern matches, else unknown; and
\* allowed when no app definition matches
C20_FirstMatchPriority ==
    detected # None /\ detected[1].done =>
        LET d == detected[1]
            w == d.window.wm_class
            t == d.window.title
            apps == {i \in DOMAIN APP_PATTERNS :
                       ClassMatches(Range(APP_PATTERNS[i].wm_class), w)}
            first == CHOOSE i \in apps : \A j \in apps : i <= j
            a == APP_PATTERNS[first]
        IN  /\ IF ClassMatches(ALLOWED_APPS, w) THEN d.screen_type = "allowed"
               ELSE IF ClassMatches(BLOCKED_APPS, w) THEN d.screen_type = "feed"
               ELSE IF apps = {}
               THEN d.screen_type = "allowed" /\ d.app_name = unknown
               ELSE /\ d.app_name = a.name
                    /\ d.screen_type =
                         IF \E p \in Range(a.dm_patterns) : re_search(p, t)
                         THEN "dm"
                         ELSE IF \E p \in Range(a.server_patterns) : re_search(p, t)
                         THEN "server_channel"
                         ELSE "unknown"
            /\ w = <<"d","i","s","c","o","r","d">> /\ t = <<"@","a","l","i","c","e"," ","-"," ","D","i","s","c","o","r","d">>
                  => d.screen_type = "dm"
            /\ w = <<"d","i","s","c","o","r","d">> /\ t = <<"#","g","e","n","e","r","a","l"," ","-"," ","M","y"," ","S","e","r","v","e","r"," ","-"," ","D","i","s","c","o","r","d">>
                  => d.screen_type = "server_channel"

\* C20, witness: "@alice - Discord" in a discord window, which a server
\* pattern matches as well, was classified as a DM
C20_Witness ==
    /\ detected # None
    /\ detected[1].done
    /\ detected[1].window = [wm_class |-> <<"d","i","s","c","o","r","d">>, title |-> <<"@","a","l","i","c","e"," ","-"," ","D","i","s","c","o","r","d">>]
    /\ re_search(APP_PATTERNS[1].server_patterns[2], detected[1].window.title)
    /\ detected[1].screen_type = "dm"

\* the app definitions whose window class matches, by their place
MatchingApps(wm_class) ==
    {i \in DOMAIN APP_PATTERNS : ClassMatches(Range(APP_PATTERNS[i].wm_class), wm_class)}

\* the window is of no application the classifier knows
Unrecognized(wm_class) ==
    /\ ~ClassMatches(ALLOWED_APPS, wm_class)
    /\ ~ClassMatches(BLOCKED_APPS, wm_class)
    /\ MatchingApps(wm_class) = {}

\* the window is of a known app and its title matches none of its patterns
NoPatternMatches(window) ==
    /\ ~ClassMatches(ALLOWED_APPS, window.wm_class)
    /\ ~ClassMatches(BLOCKED_APPS, window.wm_class)
    /\ MatchingApps(window.wm_class) # {}
    /\ LET first == CHOOSE i \in MatchingApps(window.wm_class) :
                        \A j \in MatchingApps(window.wm_class) : i <= j
           a == APP_PATTERNS[first]
       IN  \A p \in Range(a.dm_patterns) \cup Range(a.server_patterns) :
              ~re_search(p, window.title)

\* C21: the block decision is false exactly for allowed, dm and dm_list; a
\* window of an unrecognized application is never blocked, a window of a
\* recognized application whose title matches no pattern always is
C21_BlockDecision ==
    detected # None /\ detected[1].done =>
        LET d == detected[1]
        IN  /\ d.should_block <=> d.screen_type \notin {"allowed", "dm", "dm_list"}
            /\ Unrecognized(d.window.wm_class) => ~d.should_block
            /\ NoPatternMatches(d.window) => d.should_block /\ d.screen_type = "unknown"

\* C21, witness: a window of a known app whose title matches none of its
\* patterns was blocked as unknown
C21_Witness ==
    /\ detected # None
    /\ detected[1].done
    /\ NoPatternMatches(detected[1].window)
    /\ detected[1].should_block

\* the score of a category, in halves: 2.0 for each strong match, 0.5 for
\* each medium match, 1.5 for each app-specific match
Score(m, st) == 4 * m.strong[st] + 1 * m.medium[st] + 3 * m.app[st]

\* the highest score of all categories
TopScore(m) ==
    CHOOSE x \in {Score(m, st) : st \in Range(ScreenType)} :
        \A st \in Range(ScreenType) : Score(m, st) <= x

\* of the categories with the highest score, the one declared first
FirstOfHighest(m) ==
    LET high == {i \in DOMAIN ScreenType : Score(m, ScreenType[i]) = TopScore(m)}
    IN  ScreenType[CHOOSE i \in high : \A j \in high : i <= j]

C23_NoStrongIsUnknown ==
    analysis # None /\ analysis[1].done =>
        LET a == analysis[1]
            nothing == \A st \in Range(ScreenType) : Score(a.matches, st) = 0
            no_strong == \A st \in Range(ScreenType) : a.matches.strong[st] = 0
        IN  /\ nothing \/ TopScore(a.matches) < 4 \/ no_strong =>
                  /\ a.screen_type = "unknown"
                  /\ a.confidence[1] = 0
                  /\ a.matched = <<>>
            /\ a.screen_type = "unknown" => a.should_block

\* the process names of a set of blocked items
ProcessesOf(S) ==
    UNION {Range(APP_PROCESSES[i]) : i \in {lower(x) : x \in S} \cap DOMAIN APP_PROCESSES}

\* C24: every sweep scans the blocked set as it is when the sweep begins and
\* runs a forced termination for every process name of its items and for no
\* item that was not in the set then, so after an item is taken out at most
\* the sweep in progress still terminates its processes; and no step of a
\* sweep writes the hosts file
C24_SweepScansCurrentSet ==
    /\ [](\A t \in MonitorThreads :
            /\ ~sweeps[t].late
            /\ monitors[t].pc = "test" /\ sweeps[t].swept >= 1 =>
                  sweeps[t].issued = ProcessesOf(sweeps[t].at_begin))
    /\ [][sweeps' # sweeps => hosts' = hosts]_vars

\* C24, witness: a second sweep is over that terminated the processes of an
\* item which was taken out of the blocked set while it went on
C24_Witness ==
    \E t \in MonitorThreads :
        /\ monitors[t].pc = "test"
        /\ sweeps[t].swept = 2
        /\ "Steam.exe" \in sweeps[t].issued
        /\ steam \notin blocked_items

\* C25: whenever a check finds no heartbeat younger than HEARTBEAT_TIMEOUT,
\* the file being stale, missing or unreadable, on_extension_dead is called
\* in the end: it has been called since the last fresh heartbeat was seen
C25_SilenceAlerts ==
    (watchdog.pc = "sleep" /\ ~watchdog.found) ~> ~watchdog.extension_was_alive

\* what the last iteration of monitor_loop saw differs from what it last acted
\* on: another window, or another verdict
C26_Changed ==
    /\ wmon.window # None
    /\ \/ Some(wmon.window[1].window_id) # wmon.was_window
       \/ /\ wmon.was_decision # None
          /\ wmon.window[1].should_block # wmon.was_decision[1].should_block

\* C26: the window monitor shows a notification only in an iteration whose
\* focused window differs from the last one acted on or whose verdict differs
\* from the last verdict; it shows at most one while the same window stays
\* focused with the same verdict; and it shows one in every iteration that
\* finds a newly focused window blocked
C26_ActsOnlyOnChanges ==
    /\ wmon.notified => C26_Changed
    /\ ~wmon.twice
    /\ ( /\ wmon.window # None
         /\ Some(wmon.window[1].window_id) # wmon.was_window
         /\ wmon.window[1].should_block ) => wmon.notified

\* a blocked window was notified once and then seen again, unchanged, without
\* a second notification
C26_Witness ==
    /\ wmon.window # None
    /\ wmon.window[1].should_block
    /\ Some(wmon.window[1].window_id) = wmon.was_window
    /\ wmon.once /\ ~wmon.notified

\* the blocker's blocked set is what the rules and the progress ask for
C27_Enforced ==
    blocked_items = {lower(x) : x \in get_blocked_items(rules, progress, now).items}

\* C27: once the application runs its main loop, after any change of the
\* rules or of the progress the blocked set in the end equals
\* get_blocked_items(rules, progress), with no report of the sync thread needed
C27_EnforcementConverges ==
    (app_pc = "mainloop" /\ ~C27_Enforced) ~> C27_Enforced

C29_OneLoopThread == Cardinality(Live) <= 1

\* C30: through any manual additions and remote syncs of a day, the steps
\* and the workout minutes of the sync never decrease
C30_ProgressNeverLost ==
    [][ /\ fitness'.steps_today >= fitness.steps_today
        /\ fitness'.workout_minutes_today >= fitness.workout_minutes_today ]_vars

====
